---- MODULE Spec2Model ----
(***************************************************************************)
(* Fruity Gulp backend: the order pricing and assembly pipeline            *)
(* (createOrder, reorder, cancelOrder, getOrderStatus), the delivery-fee   *)
(* endpoints and the recommendation engine, modelled from the controllers. *)
(*                                                                         *)
(* Numbers.  The controllers compute on JavaScript numbers; the model      *)
(* keeps them as exact fixed-point integers:                               *)
(*   distance_km      in hundredths of a kilometre  (DistScale)            *)
(*   quantity_litres  in tenths of a litre          (QtyScale)             *)
(*   price_per_litre, delivery_fee  in whole UGX                           *)
(*   subtotal, total_amount  in tenths of a UGX (price x tenths of litre)  *)
(*   times            in tenths of a minute         (TimeScale)            *)
(* The store is the external collaborator: every call either returns a     *)
(* result, returns an error value, or throws.                              *)
(***************************************************************************)
EXTENDS Integers, Sequences, FiniteSets, TLC

VARIABLES
    products,      \* table products: id -> [price_per_litre, is_available]
    orders,        \* table orders: id -> header row
    order_items,   \* table order_items: order id -> sequence of item rows
    nextOrderId,   \* ids the store has handed out so far (uuid_generate_v4)
    req,           \* the requests in flight: slot -> handler locals and position
    rec,           \* recommendation engine: the last request, the store queries it
                   \* issued and its response
    dlv            \* delivery endpoints: the last request and its response

vars == <<products, orders, order_items, nextOrderId, req, rec, dlv>>

----------------------------------------------------------------------------
\* Bounds of the model

MaxOrders == 2

MaxItems == 2

\* Fixed-point scales (see the header)

DistScale == 10 * 10

QtyScale == 2 * 5

TimeScale == 2 * 5

----------------------------------------------------------------------------
\* Small input sets

Users == {"u1", "u2"}

ProductIds == {"p1", "p2"}

Prices == {15000, 18000}

\* 0.5 l and 1.0 l; the schema allows 0 < q <= 10
Quantities == {5, 10}

\* what the resolver answers: 0.1 km, 3.0 km
Distances == {10, 300}

\* the clock at the time of a request, in tenths of a minute
RequestTimes == {7}

\* the requests that can be in flight, and the one the sequential systems use
Slots == {1, 2}

MainSlots == {1}

Statuses == {"pending", "confirmed", "preparing", "out_for_delivery", "delivered", "cancelled"}

Item(p, q) == [product_id |-> p, quantity_litres |-> q]

\* The item lists a caller posts: length 0..MaxItems
ItemLists ==
    {<<>>, <<Item("p1", 5)>>, <<Item("p2", 10)>>}
    \cup (IF MaxItems >= 2 THEN {<<Item("p1", 5), Item("p2", 10)>>} ELSE {})
    \cup (IF MaxItems >= 3 THEN {<<Item("p2", 5), Item("p1", 5), Item("p2", 10)>>} ELSE {})

\* Outcome of one store call: a result, an error value, or an exception
Outcomes == {"ok", "error", "throw"}

\* the resolver's possible answers
Resolutions == {"outlet", "none", "error", "throw"}

\* the addressing a caller posts with an order: whole degrees, an address, a
\* payment method
DefaultBody ==
    [delivery_address |-> "a1", delivery_lat |-> 1, delivery_lng |-> 32,
     payment_method |-> "cash"]

\* a field of a request body that the caller left out
Absent == [given |-> FALSE, value |-> 0]

Given(v) == [given |-> TRUE, value |-> v]

\* a reorder body with no field supplied
NoOverride ==
    [delivery_address |-> [given |-> FALSE, value |-> ""],
     delivery_lat |-> Absent, delivery_lng |-> Absent,
     payment_method |-> [given |-> FALSE, value |-> ""]]

----------------------------------------------------------------------------
\* helpers.js

\* Math.ceil of a distance given in hundredths of a kilometre
Ceil(d) == -((-d) \div DistScale)

\* faulty variant: Math.round in place of Math.ceil
calculateDeliveryFee_Round(distanceKm) ==
    2000 + (2000 * ((distanceKm + DistScale \div 2) \div DistScale))

calculateDeliveryFee(distanceKm) == 2000 + (2000 * Ceil(distanceKm))

\* new Date() + setMinutes(getMinutes() + totalMinutes): setMinutes takes the
\* integer part of its argument (ToIntegerOrInfinity); now is in tenths of a minute
calculateEstimatedDeliveryTime(now, distanceKm) ==
    now + TimeScale * ((30 * DistScale + 10 * distanceKm) \div DistScale)

----------------------------------------------------------------------------
\* Responses

NoResp == [code |-> 0, message |-> "", data |-> "none"]

Resp(c, m) == [code |-> c, message |-> m, data |-> "none"]

RespData(c, m, d) == [code |-> c, message |-> m, data |-> d]

IdleReq ==
    [op |-> "none", pc |-> "idle", user |-> "u1", items |-> <<>>, target |-> 0,
     idx |-> 0, dist |-> 0, fee |-> 0, eta |-> 0, total |-> 0, orderItems |-> <<>>,
     orderId |-> 0, readStatus |-> "none", resp |-> NoResp,
     body |-> DefaultBody, override |-> NoOverride, outlet |-> "pending", now |-> 0,
     calls |-> <<>>]

Free(r) == req[r].pc \in {"idle", "done"}

\* res.status(..).json(..): the handler returns and its locals are gone; the model
\* the store calls of a pricing loop, one per item
ProductCalls == <<"select product 1", "select product 2", "select product 3">>

\* the store call the handler awaits at its position
CallAt(r) ==
    CASE req[r].pc = "co_outlet" -> "rpc get_nearest_outlet"
      [] req[r].pc = "co_product" -> ProductCalls[req[r].idx]
      [] req[r].pc = "co_header" -> "insert orders"
      [] req[r].pc = "co_items" -> "insert order_items"
      [] req[r].pc = "co_rollback" -> "delete orders"
      [] req[r].pc = "co_fetch" -> "select orders joined"
      [] req[r].pc = "ca_fetch" -> "select orders for cancel"
      [] req[r].pc = "ca_update" -> "update orders"
      [] req[r].pc = "ro_fetch" -> "select original order"
      [] req[r].pc = "gs_fetch" -> "select order status"
      [] req[r].pc = "go_fetch" -> "select order by id"
      [] req[r].pc = "uo_fetch" -> "select orders of user"
      [] OTHER -> "none"

\* the request's store calls so far, with the call now answered by out
Called(r, out) == Append(req[r].calls, [call |-> CallAt(r), out |-> out])

\* keeps what identifies the request (operation, caller, order ids, status read,
\* the body of a reorder, the resolver's answer, the store calls it made)
Respond(r, out, response) ==
    req' = [req EXCEPT ![r] = [IdleReq EXCEPT !.op = req[r].op, !.pc = "done",
                                 !.user = req[r].user, !.target = req[r].target,
                                 !.orderId = req[r].orderId,
                                 !.readStatus = req[r].readStatus,
                                 !.override = req[r].override,
                                 !.outlet = req[r].outlet,
                                 !.now = req[r].now,
                                 !.calls = Called(r, out),
                                 !.resp = response]]

\* the same, for a handler that returns at item idx of its pricing loop
RespondAt(r, out, response, idx) ==
    req' = [req EXCEPT ![r] = [IdleReq EXCEPT !.op = req[r].op, !.pc = "done",
                                 !.user = req[r].user, !.target = req[r].target,
                                 !.orderId = req[r].orderId,
                                 !.readStatus = req[r].readStatus,
                                 !.override = req[r].override,
                                 !.outlet = req[r].outlet,
                                 !.now = req[r].now,
                                 !.calls = Called(r, out),
                                 !.idx = idx,
                                 !.resp = response]]

RECURSIVE SumSubtotals(_)
SumSubtotals(rows) ==
    IF rows = <<>> THEN 0 ELSE Head(rows).subtotal + SumSubtotals(Tail(rows))

----------------------------------------------------------------------------
\* validation middleware: schemas.createOrder (items part)

ValidCreateOrderBody(items) ==
    /\ Len(items) >= 1
    /\ \A i \in 1..Len(items) : items[i].quantity_litres > 0
                                /\ items[i].quantity_litres <= 10 * QtyScale

\* POST /orders: validateBody(schemas.createOrder), then createOrder
PostOrder(r, user, items) ==
    /\ Free(r)
    /\ IF ValidCreateOrderBody(items)
         THEN req' = [req EXCEPT ![r] = [IdleReq EXCEPT !.op = "createOrder",
                                            !.pc = "co_outlet", !.user = user,
                                            !.items = items]]
         ELSE req' = [req EXCEPT ![r] = [IdleReq EXCEPT !.op = "createOrder",
                                            !.pc = "done", !.user = user,
                                            !.resp = Resp(400, "Validation error")]]
    /\ UNCHANGED <<products, orders, order_items, nextOrderId, rec, dlv>>

----------------------------------------------------------------------------
\* createOrder

\* where the pricing loop goes after item idx has been priced
AfterItem(r, idx) == IF idx >= Len(req[r].items) THEN "co_header" ELSE "co_product"

\* faulty variant: only the resolver's error is looked at
OutletMissing_ErrorOnly(res) == res = "error"

\* outletError || !nearestOutlet
OutletMissing(res) == res \in {"error", "none"}

\* faulty variant: an outlet beyond the delivery radius is refused like no outlet
CoNearestOutlet_Radius(r, d, now) ==
    /\ req[r].pc = "co_outlet"
    /\ \E res \in Resolutions :
         IF res = "throw"
           THEN req' = [req EXCEPT ![r] = [IdleReq EXCEPT
                          !.op = req[r].op, !.pc = "done", !.user = req[r].user,
                          !.target = req[r].target, !.override = req[r].override,
                          !.outlet = res, !.now = now, !.calls = Called(r, res),
                          !.resp = Resp(500, "Internal server error")]]
         ELSE IF OutletMissing(res) \/ d > 20 * DistScale
           THEN req' = [req EXCEPT ![r] = [IdleReq EXCEPT
                          !.op = req[r].op, !.pc = "done", !.user = req[r].user,
                          !.target = req[r].target, !.override = req[r].override,
                          !.outlet = res, !.now = now, !.calls = Called(r, res),
                          !.resp = Resp(400, "No outlets available in your area")]]
         ELSE LET fee == calculateDeliveryFee(d) IN
              req' = [req EXCEPT ![r].dist = d,
                                 ![r].outlet = res,
                                 ![r].now = now,
                                 ![r].calls = Called(r, res),
                                 ![r].fee = fee,
                                 ![r].eta = calculateEstimatedDeliveryTime(now, d),
                                 ![r].idx = 1,
                                 ![r].total = IF Len(req[r].items) = 0
                                                THEN fee * QtyScale ELSE 0,
                                 ![r].pc = AfterItem(r, 0)]
    /\ UNCHANGED <<products, orders, order_items, nextOrderId, rec, dlv>>

\* supabase.rpc('get_nearest_outlet') and the fee / delivery-time computation
CoNearestOutlet(r, d, now) ==
    /\ req[r].pc = "co_outlet"
    /\ \E res \in Resolutions :
         IF res = "throw"
           THEN req' = [req EXCEPT ![r] = [IdleReq EXCEPT
                          !.op = req[r].op, !.pc = "done", !.user = req[r].user,
                          !.target = req[r].target, !.override = req[r].override,
                          !.outlet = res, !.now = now, !.calls = Called(r, res),
                          !.resp = Resp(500, "Internal server error")]]
         ELSE IF OutletMissing(res)
           THEN req' = [req EXCEPT ![r] = [IdleReq EXCEPT
                          !.op = req[r].op, !.pc = "done", !.user = req[r].user,
                          !.target = req[r].target, !.override = req[r].override,
                          !.outlet = res, !.now = now, !.calls = Called(r, res),
                          !.resp = Resp(400, "No outlets available in your area")]]
         ELSE LET fee == calculateDeliveryFee(d) IN
              req' = [req EXCEPT ![r].dist = d,
                                 ![r].outlet = res,
                                 ![r].now = now,
                                 ![r].calls = Called(r, res),
                                 ![r].fee = fee,
                                 ![r].eta = calculateEstimatedDeliveryTime(now, d),
                                 ![r].idx = 1,
                                 ![r].total = IF Len(req[r].items) = 0
                                                THEN fee * QtyScale ELSE 0,
                                 ![r].pc = AfterItem(r, 0)]
    /\ UNCHANGED <<products, orders, order_items, nextOrderId, rec, dlv>>

\* subtotal = product.price_per_litre * item.quantity_litres
Subtotal(price, quantity) == price * quantity

\* faulty variant: the fee is left out of the total
AddDeliveryFee_Omitted(total, fee) == total

\* totalAmount += deliveryFee, once the loop is over
AddDeliveryFee(total, fee) == total + fee * QtyScale

\* faulty variant: only the store's error is looked at, not availability
ProductMissing_ErrorOnly(out, product) == out = "error"

\* productError || !product, for select ... eq('id') eq('is_available', true) single()
ProductMissing(out, product) == out = "error" \/ ~product.is_available

\* one turn of the pricing loop: fetch the product, price the item
CoProduct(r) ==
    /\ req[r].pc = "co_product"
    /\ \E out \in Outcomes :
         LET i == req[r].idx
             item == req[r].items[i]
             product == products[item.product_id]
             subtotal == Subtotal(product.price_per_litre, item.quantity_litres)
             last == i >= Len(req[r].items)
         IN
         IF out = "throw"
           THEN Respond(r, out, Resp(500, "Internal server error"))
         ELSE IF ProductMissing(out, product)
           THEN RespondAt(r, out, RespData(400, "Product not found or unavailable",
                                           item.product_id), i)
         ELSE req' = [req EXCEPT
                 ![r].orderItems = Append(@, [product_id |-> item.product_id,
                                              quantity_litres |-> item.quantity_litres,
                                              unit_price |-> product.price_per_litre,
                                              subtotal |-> subtotal]),
                 ![r].total = IF last THEN AddDeliveryFee(@ + subtotal, req[r].fee)
                                      ELSE @ + subtotal,
                 ![r].idx = i + 1,
                 ![r].calls = Called(r, out),
                 ![r].pc = AfterItem(r, i)]
    /\ UNCHANGED <<products, orders, order_items, nextOrderId, rec, dlv>>

\* faulty variant: orders are born confirmed
InitialStatus_Confirmed == "confirmed"

\* status: 'pending'
InitialStatus == "pending"

\* the header row createOrder inserts
OrderHeader(r) ==
    [user_id |-> req[r].user,
     total_amount |-> req[r].total,
     delivery_fee |-> req[r].fee,
     estimated_delivery_time |-> req[r].eta,
     delivery_address |-> req[r].body.delivery_address,
     delivery_lat |-> req[r].body.delivery_lat,
     delivery_lng |-> req[r].body.delivery_lng,
     payment_method |-> req[r].body.payment_method,
     status |-> InitialStatus]

\* faulty variant: the insert's error is not looked at
HeaderFailed_Ignored(out) == FALSE

\* if (orderError)
HeaderFailed(out) == out = "error"

\* supabase.from('orders').insert([...]).select().single()
CoInsertHeader(r) ==
    /\ req[r].pc = "co_header"
    /\ \E out \in Outcomes :
         IF out = "throw"
           THEN /\ Respond(r, out, Resp(500, "Internal server error"))
                /\ UNCHANGED <<orders, nextOrderId>>
         ELSE IF HeaderFailed(out)
           THEN /\ Respond(r, out, Resp(500, "Failed to create order"))
                /\ UNCHANGED <<orders, nextOrderId>>
         ELSE /\ nextOrderId < MaxOrders
              /\ LET id == nextOrderId + 1 IN
                 /\ orders' = [i \in DOMAIN orders \cup {id} |->
                                 IF i = id THEN OrderHeader(r) ELSE orders[i]]
                 /\ nextOrderId' = id
                 /\ req' = [req EXCEPT ![r].orderId = id, ![r].calls = Called(r, out),
                                        ![r].pc = "co_items"]
    /\ UNCHANGED <<products, order_items, rec, dlv>>

\* orderItems.map(item => ({...item, order_id: order.id}))
WithOrderId(rows, id) ==
    [i \in 1..Len(rows) |->
        [order_id |-> id,
         product_id |-> rows[i].product_id,
         quantity_litres |-> rows[i].quantity_litres,
         unit_price |-> rows[i].unit_price,
         subtotal |-> rows[i].subtotal]]

\* supabase.from('order_items').insert(orderItemsWithOrderId)
CoInsertItems(r) ==
    /\ req[r].pc = "co_items"
    /\ \E out \in Outcomes :
         LET id == req[r].orderId IN
         IF out = "throw"
           THEN /\ Respond(r, out, Resp(500, "Internal server error"))
                /\ UNCHANGED order_items
         ELSE IF out = "error" \/ id \notin DOMAIN orders
           THEN /\ req' = [req EXCEPT ![r].calls = Called(r, out),
                                       ![r].pc = "co_rollback"]
                /\ UNCHANGED order_items
         ELSE /\ order_items' = [i \in DOMAIN order_items \cup {id} |->
                                   IF i = id THEN WithOrderId(req[r].orderItems, id)
                                             ELSE order_items[i]]
              /\ req' = [req EXCEPT ![r].calls = Called(r, out), ![r].pc = "co_fetch"]
    /\ UNCHANGED <<products, orders, nextOrderId, rec, dlv>>

\* delete from a table by id; order_items.order_id is ON DELETE CASCADE
DeleteOrder(id) ==
    /\ orders' = [i \in DOMAIN orders \ {id} |-> orders[i]]
    /\ order_items' = [i \in DOMAIN order_items \ {id} |-> order_items[i]]

\* the compensating delete: await supabase.from('orders').delete().eq('id', order.id)
\* its result is not inspected
CoRollback(r) ==
    /\ req[r].pc = "co_rollback"
    /\ \E out \in Outcomes :
         IF out = "throw"
           THEN /\ Respond(r, out, Resp(500, "Internal server error"))
                /\ UNCHANGED <<orders, order_items>>
         ELSE IF out = "error"
           THEN /\ Respond(r, out, Resp(500, "Failed to create order items"))
                /\ UNCHANGED <<orders, order_items>>
         ELSE /\ Respond(r, out, Resp(500, "Failed to create order items"))
              /\ DeleteOrder(req[r].orderId)
    /\ UNCHANGED <<products, nextOrderId, rec, dlv>>

\* faulty variant: a failed re-fetch fails the request
CreatedOrder_Strict(out, found) ==
    IF out = "error" \/ ~found
      THEN Resp(500, "Failed to fetch order")
    ELSE RespData(201, "Order created successfully", "joined")

\* the answer after the re-fetch: the bare header if (fetchError), else the joined order
CreatedOrder(out, found) ==
    IF out = "error" \/ ~found
      THEN RespData(201, "Order created successfully", "header")
    ELSE RespData(201, "Order created successfully", "joined")

\* the enrichment re-fetch of the joined order; best effort
CoFetchComplete(r) ==
    /\ req[r].pc = "co_fetch"
    /\ \E out \in Outcomes :
         IF out = "throw"
           THEN Respond(r, out, Resp(500, "Internal server error"))
         ELSE Respond(r, out, CreatedOrder(out, req[r].orderId \in DOMAIN orders))
    /\ UNCHANGED <<products, orders, order_items, nextOrderId, rec, dlv>>

----------------------------------------------------------------------------
\* the owner filter of the single-order reads

\* faulty variant: the order is looked up by id alone
OwnedBy_AnyUser(id, user) == id \in DOMAIN orders

\* .eq('id', id).eq('user_id', userId).single() finds a row
OwnedBy(id, user) == id \in DOMAIN orders /\ orders[id].user_id = user

----------------------------------------------------------------------------
\* cancelOrder

\* faulty variant: preparing orders may be cancelled too
CancellableStatuses_Wide == {"pending", "confirmed", "preparing"}

CancellableStatuses == {"pending", "confirmed"}

\* PUT /orders/:id/cancel
PutCancel(r, user, id) ==
    /\ Free(r)
    /\ req' = [req EXCEPT ![r] = [IdleReq EXCEPT !.op = "cancelOrder", !.pc = "ca_fetch",
                                     !.user = user, !.target = id]]
    /\ UNCHANGED <<products, orders, order_items, nextOrderId, rec, dlv>>

\* select id, status where id = :id and user_id = userId; then the status guard
CaFetch(r) ==
    /\ req[r].pc = "ca_fetch"
    /\ \E out \in Outcomes :
         LET id == req[r].target
             found == OwnedBy(id, req[r].user)
         IN
         IF out = "throw"
           THEN Respond(r, out, Resp(500, "Internal server error"))
         ELSE IF out = "error" \/ ~found
           THEN Respond(r, out, Resp(404, "Order not found"))
         ELSE IF orders[id].status \notin CancellableStatuses
           THEN req' = [req EXCEPT ![r].pc = "done",
                                   ![r].readStatus = orders[id].status,
                                   ![r].calls = Called(r, out),
                                   ![r].resp = Resp(400, "Order cannot be cancelled at this stage")]
         ELSE req' = [req EXCEPT ![r].pc = "ca_update",
                                 ![r].calls = Called(r, out),
                                 ![r].readStatus = orders[id].status]
    /\ UNCHANGED <<products, orders, order_items, nextOrderId, rec, dlv>>

\* faulty variant: an update that returned an error is issued again
CaUpdate_Retry(r) ==
    /\ req[r].pc = "ca_update"
    /\ \E out \in Outcomes :
         LET id == req[r].target IN
         IF out = "throw"
           THEN /\ Respond(r, out, Resp(500, "Internal server error"))
                /\ UNCHANGED orders
         ELSE IF out = "error"
           THEN /\ Len(req[r].calls) < 3
                /\ req' = [req EXCEPT ![r].calls = Called(r, out)]
                /\ UNCHANGED orders
         ELSE /\ Respond(r, out, Resp(200, "Order cancelled successfully"))
              /\ orders' = [i \in DOMAIN orders |->
                              IF i = id THEN [orders[i] EXCEPT !.status = "cancelled"]
                                        ELSE orders[i]]
    /\ UNCHANGED <<products, order_items, nextOrderId, rec, dlv>>

\* update orders set status = 'cancelled' where id = :id
CaUpdate(r) ==
    /\ req[r].pc = "ca_update"
    /\ \E out \in Outcomes :
         LET id == req[r].target IN
         IF out = "throw"
           THEN /\ Respond(r, out, Resp(500, "Internal server error"))
                /\ UNCHANGED orders
         ELSE IF out = "error"
           THEN /\ Respond(r, out, Resp(500, "Failed to cancel order"))
                /\ UNCHANGED orders
         ELSE /\ Respond(r, out, Resp(200, "Order cancelled successfully"))
              /\ orders' = [i \in DOMAIN orders |->
                              IF i = id THEN [orders[i] EXCEPT !.status = "cancelled"]
                                        ELSE orders[i]]
    /\ UNCHANGED <<products, order_items, nextOrderId, rec, dlv>>

----------------------------------------------------------------------------
\* getOrderStatus

\* the clock when the status is asked for, in tenths of a minute
StatusTimes == {7, 300, 317, 320}

\* statusProgress[order.status] || 0
statusProgress(status) ==
    CASE status = "pending" -> 10
      [] status = "confirmed" -> 25
      [] status = "preparing" -> 50
      [] status = "out_for_delivery" -> 75
      [] status = "delivered" -> 100
      [] status = "cancelled" -> 0
      [] OTHER -> 0

\* helpers.js
getStatusMessage(status) ==
    CASE status = "pending" -> "Order received and being processed"
      [] status = "confirmed" -> "Order confirmed and being prepared"
      [] status = "preparing" -> "Your fresh juices are being prepared"
      [] status = "out_for_delivery" -> "Order is on the way to you"
      [] status = "delivered" -> "Order has been delivered successfully"
      [] status = "cancelled" -> "Order has been cancelled"
      [] OTHER -> "Order status unknown"

\* faulty variant: the difference is not clamped at 0
DiffMinutes_Signed(estimatedTime, now) == (estimatedTime - now) \div TimeScale

\* Math.max(0, Math.floor((estimatedTime - now) / (1000 * 60)))
DiffMinutes(estimatedTime, now) ==
    IF (estimatedTime - now) \div TimeScale > 0
      THEN (estimatedTime - now) \div TimeScale ELSE 0

\* timeRemaining: null, or the minutes of `${diffMinutes} minutes`
TimeRemaining(order, now) ==
    IF order.status # "delivered" /\ order.status # "cancelled"
      THEN [null |-> FALSE, minutes |-> DiffMinutes(order.estimated_delivery_time, now)]
      ELSE [null |-> TRUE, minutes |-> 0]

\* GET /orders/:id/status
GetStatus(r, user, id) ==
    /\ Free(r)
    /\ req' = [req EXCEPT ![r] = [IdleReq EXCEPT !.op = "getOrderStatus", !.pc = "gs_fetch",
                                     !.user = user, !.target = id]]
    /\ UNCHANGED <<products, orders, order_items, nextOrderId, rec, dlv>>

\* the fetch of the order and the tracking answer
GsFetch(r, now) ==
    /\ req[r].pc = "gs_fetch"
    /\ \E out \in Outcomes :
         LET id == req[r].target
             found == OwnedBy(id, req[r].user)
         IN
         IF out = "throw"
           THEN Respond(r, out, Resp(500, "Failed to fetch order status"))
         ELSE IF out = "error" \/ ~found
           THEN Respond(r, out, Resp(404, "Order not found"))
         ELSE req' = [req EXCEPT ![r] = [IdleReq EXCEPT
                 !.op = req[r].op, !.pc = "done", !.user = req[r].user,
                 !.target = id, !.now = now, !.calls = Called(r, out),
                 !.resp = RespData(200, "",
                            [order_id |-> id,
                             status |-> orders[id].status,
                             status_message |-> getStatusMessage(orders[id].status),
                             progress_percentage |-> statusProgress(orders[id].status),
                             estimated_delivery_time |-> orders[id].estimated_delivery_time,
                             time_remaining |-> TimeRemaining(orders[id], now)])]]
    /\ UNCHANGED <<products, orders, order_items, nextOrderId, rec, dlv>>

----------------------------------------------------------------------------
\* getOrderById and getUserOrders

\* GET /orders/:id
GetOrder(r, user, id) ==
    /\ Free(r)
    /\ req' = [req EXCEPT ![r] = [IdleReq EXCEPT !.op = "getOrderById", !.pc = "go_fetch",
                                     !.user = user, !.target = id]]
    /\ UNCHANGED <<products, orders, order_items, nextOrderId, rec, dlv>>

\* the joined row of an order: the header with its id and its items
JoinedOrder(id) ==
    [id |-> id,
     order |-> orders[id],
     order_items |-> IF id \in DOMAIN order_items THEN order_items[id] ELSE <<>>]

\* the fetch of the caller's order and the answer
GoFetch(r) ==
    /\ req[r].pc = "go_fetch"
    /\ \E out \in Outcomes :
         LET id == req[r].target
             found == OwnedBy(id, req[r].user)
         IN
         IF out = "throw"
           THEN Respond(r, out, Resp(500, "Failed to fetch order"))
         ELSE IF out = "error" \/ ~found
           THEN Respond(r, out, Resp(404, "Order not found"))
         ELSE Respond(r, out, RespData(200, "", JoinedOrder(id)))
    /\ UNCHANGED <<products, orders, order_items, nextOrderId, rec, dlv>>

\* the status query parameter of the list: none, or one status
StatusFilters == {"none", "pending", "cancelled"}

\* schemas.pagination knows page, limit, sort and order: any other key is refused
ValidQuery(status) == status = "none"

\* GET /orders, first page of the default size: validateQuery, then the handler,
\* which keeps its status filter in readStatus
GetUserOrders(r, user, status) ==
    /\ Free(r)
    /\ req' = IF ~ValidQuery(status)
                THEN [req EXCEPT ![r] = [IdleReq EXCEPT
                         !.op = "getUserOrders", !.pc = "done", !.user = user,
                         !.resp = Resp(400, "Query validation error")]]
              ELSE [req EXCEPT ![r] = [IdleReq EXCEPT
                         !.op = "getUserOrders", !.pc = "uo_fetch", !.user = user,
                         !.readStatus = status]]
    /\ UNCHANGED <<products, orders, order_items, nextOrderId, rec, dlv>>

RECURSIVE OrdersOf(_, _, _)
\* .eq('user_id', userId), .eq('status', status) if given, newest first, among the
\* orders 1..n
OrdersOf(user, status, n) ==
    IF n = 0 THEN <<>>
    ELSE IF /\ n \in DOMAIN orders
            /\ orders[n].user_id = user
            /\ status = "none" \/ orders[n].status = status
      THEN <<JoinedOrder(n)>> \o OrdersOf(user, status, n - 1)
    ELSE OrdersOf(user, status, n - 1)

\* the fetch of the caller's orders and the answer
UoFetch(r) ==
    /\ req[r].pc = "uo_fetch"
    /\ \E out \in Outcomes :
         IF out = "throw"
           THEN Respond(r, out, Resp(500, "Internal server error"))
         ELSE IF out = "error"
           THEN Respond(r, out, Resp(500, "Failed to fetch orders"))
         ELSE Respond(r, out, RespData(200, "",
                         OrdersOf(req[r].user, req[r].readStatus, nextOrderId)))
    /\ UNCHANGED <<products, orders, order_items, nextOrderId, rec, dlv>>

----------------------------------------------------------------------------
\* reorder

\* the bodies a caller posts to reorder (the route validates nothing): nothing
\* supplied, every field supplied, latitude 0 alone, longitude 0 alone
Overrides ==
    {NoOverride,
     [delivery_address |-> [given |-> TRUE, value |-> "a2"],
      delivery_lat |-> Given(2), delivery_lng |-> Given(31),
      payment_method |-> [given |-> TRUE, value |-> "card"]],
     [NoOverride EXCEPT !.delivery_lat = Given(0)],
     [NoOverride EXCEPT !.delivery_lng = Given(0)]}

\* supplied || original, on numbers: undefined and 0 are falsy
OrNumber(supplied, original) ==
    IF supplied.given /\ supplied.value # 0 THEN supplied.value ELSE original

\* supplied || original, on strings and objects: undefined and '' are falsy
OrText(supplied, original) ==
    IF supplied.given /\ supplied.value # "" THEN supplied.value ELSE original

\* originalOrder.order_items.map(item => ({product_id, quantity_litres}))
ReorderItems(rows) ==
    [i \in 1..Len(rows) |-> Item(rows[i].product_id, rows[i].quantity_litres)]

\* newOrderData without its items
NewOrderData(override, originalOrder) ==
    [delivery_address |-> OrText(override.delivery_address, originalOrder.delivery_address),
     delivery_lat |-> OrNumber(override.delivery_lat, originalOrder.delivery_lat),
     delivery_lng |-> OrNumber(override.delivery_lng, originalOrder.delivery_lng),
     payment_method |-> OrText(override.payment_method, originalOrder.payment_method)]

\* POST /orders/:id/reorder
PostReorder(r, user, id, override) ==
    /\ Free(r)
    /\ req' = [req EXCEPT ![r] = [IdleReq EXCEPT !.op = "reorder", !.pc = "ro_fetch",
                                     !.user = user, !.target = id,
                                     !.override = override]]
    /\ UNCHANGED <<products, orders, order_items, nextOrderId, rec, dlv>>

\* the fetch of the original order with its items, then createOrder on the new body
RoFetch(r) ==
    /\ req[r].pc = "ro_fetch"
    /\ \E out \in Outcomes :
         LET id == req[r].target
             found == OwnedBy(id, req[r].user)
             rows == IF id \in DOMAIN order_items THEN order_items[id] ELSE <<>>
         IN
         IF out = "throw"
           THEN Respond(r, out, Resp(500, "Failed to reorder"))
         ELSE IF out = "error" \/ ~found
           THEN Respond(r, out, Resp(404, "Original order not found"))
         ELSE req' = [req EXCEPT ![r].items = ReorderItems(rows),
                                 ![r].body = NewOrderData(req[r].override, orders[id]),
                                 ![r].calls = Called(r, out),
                                 ![r].pc = "co_outlet"]
    /\ UNCHANGED <<products, orders, order_items, nextOrderId, rec, dlv>>

----------------------------------------------------------------------------
\* The environment of the order pipeline: the catalog and the fulfilment side
\* write the same tables.

\* products.price_per_litre is repriced
ChangePrice(p, price) ==
    /\ products[p].price_per_litre # price
    /\ products' = [products EXCEPT ![p].price_per_litre = price]
    /\ UNCHANGED <<orders, order_items, nextOrderId, req, rec, dlv>>

\* products.is_available is switched
SetAvailable(p, b) ==
    /\ products[p].is_available # b
    /\ products' = [products EXCEPT ![p].is_available = b]
    /\ UNCHANGED <<orders, order_items, nextOrderId, req, rec, dlv>>

NextStatus(s) ==
    CASE s = "pending" -> "confirmed"
      [] s = "confirmed" -> "preparing"
      [] s = "preparing" -> "out_for_delivery"
      [] s = "out_for_delivery" -> "delivered"
      [] OTHER -> s

\* orders.status is advanced by the fulfilment side (the column's CHECK lists the values)
AdvanceStatus(id) ==
    /\ id \in DOMAIN orders
    /\ NextStatus(orders[id].status) # orders[id].status
    /\ orders' = [orders EXCEPT ![id].status = NextStatus(@)]
    /\ UNCHANGED <<products, order_items, nextOrderId, req, rec, dlv>>

----------------------------------------------------------------------------
\* Strings.  A string is a sequence of one-character strings, so that
\* toLowerCase and includes are computed character by character.

LowerChar(c) ==
    CASE c = "C" -> "c"
      [] c = "D" -> "d"
      [] c = "F" -> "f"
      [] c = "G" -> "g"
      [] c = "N" -> "n"
      [] OTHER -> c

\* String.prototype.toLowerCase
ToLower(s) == [i \in 1..Len(s) |-> LowerChar(s[i])]

\* String.prototype.includes
Includes(s, t) ==
    \E i \in 1..(Len(s) - Len(t) + 1) : SubSeq(s, i, i + Len(t) - 1) = t

Range(s) == {s[i] : i \in 1..Len(s)}

LowerSet(s) == {ToLower(s[i]) : i \in 1..Len(s)}

\* the vocabulary of the model
gin == <<"g", "i">>
Gin == <<"G", "i">>
lem == <<"l", "e">>
ora == <<"o", "r">>
dai == <<"d", "a">>
nut == <<"n", "u">>
Nut == <<"N", "u">>
wat == <<"w", "a">>
flu == <<"f", "l">>
Flu == <<"F", "l">>
det == <<"d", "e">>
Col == <<"C", "o">>
zzz == <<"z", "z">>
imm == <<"i", "m">>
afl == <<"a", "f", "l">>

----------------------------------------------------------------------------
\* Recommendation engine: getRecommendations

\* table symptoms_ingredients
SymptomsIngredients ==
    << [symptom |-> flu, recommended_ingredients |-> <<gin, lem, ora>>,
        avoid_ingredients |-> <<dai>>],
       [symptom |-> det, recommended_ingredients |-> <<lem>>,
        avoid_ingredients |-> <<>>],
       [symptom |-> Col, recommended_ingredients |-> <<wat>>,
        avoid_ingredients |-> <<gin>>] >>

\* the available products the catalog may hold, in table order
CatalogUniverse ==
    << [id |-> 1, ingredients |-> <<Gin, lem>>, health_benefits |-> <<imm>>],
       [id |-> 2, ingredients |-> <<dai, gin, lem>>, health_benefits |-> <<afl>>],
       [id |-> 3, ingredients |-> <<wat>>, health_benefits |-> <<>>],
       [id |-> 4, ingredients |-> <<ora>>, health_benefits |-> <<>>],
       [id |-> 5, ingredients |-> <<lem, ora>>, health_benefits |-> <<afl, flu>>],
       [id |-> 6, ingredients |-> <<Nut, gin>>, health_benefits |-> <<>>] >>

MaxCatalog == 5

RECURSIVE Pick(_, _, _)
\* the rows of seq whose index is in keep, in table order
Pick(seq, keep, n) ==
    IF n = 0 THEN <<>>
    ELSE IF n \in keep THEN Append(Pick(seq, keep, n - 1), seq[n])
    ELSE Pick(seq, keep, n - 1)

\* what select * from products where is_available may return
Catalogs ==
    {Pick(CatalogUniverse, keep, Len(CatalogUniverse)) :
        keep \in {k \in SUBSET (1..Len(CatalogUniverse)) : Cardinality(k) <= MaxCatalog}}

SymptomLists == {<<flu>>, <<Flu>>, <<zzz>>, <<flu, det>>, <<Col>>}

AllergyLists == {<<>>, <<nut>>, <<Gin>>}

\* a request body: symptoms may be missing, not a list, or a list
RecBodies ==
    {[kind |-> "list", symptoms |-> s, allergies |-> a] :
        s \in SymptomLists \cup {<<>>}, a \in AllergyLists}
    \cup {[kind |-> k, symptoms |-> <<>>, allergies |-> <<>>] : k \in {"missing", "notlist"}}

\* .in('symptom', symptoms.map(s => s.toLowerCase())): the store compares the
\* stored symptom with the lower-cased requests, as stored
MatchingMappings(symptoms) ==
    SelectSeq(SymptomsIngredients, LAMBDA m : m.symptom \in LowerSet(symptoms))

\* recommendedIngredients: every recommended ingredient of a fetched mapping, folded
RecommendedSet(mappings) ==
    UNION {LowerSet(mappings[i].recommended_ingredients) : i \in 1..Len(mappings)}

\* faulty variant: the allergies are added as typed, not lower-cased
FoldAllergies_AsGiven(allergies) == Range(allergies)

\* the allergies as they are added to the avoid set
FoldAllergies(allergies) == LowerSet(allergies)

\* avoidIngredients: the avoided ingredients of the fetched mappings and the allergies
AvoidSet(mappings, allergies) ==
    UNION {LowerSet(mappings[i].avoid_ingredients) : i \in 1..Len(mappings)}
    \cup FoldAllergies(allergies)

RECURSIVE ScoreIngredients_Penalised(_, _, _)
\* faulty variant: a recommended ingredient takes 5 points away
ScoreIngredients_Penalised(ings, A, R) ==
    IF ings = <<>> THEN [score |-> 0, matched |-> <<>>, avoided |-> FALSE]
    ELSE LET n == Len(ings)
             before == ScoreIngredients_Penalised(SubSeq(ings, 1, n - 1), A, R)
             lowerIngredient == ToLower(ings[n])
             isAvoided == lowerIngredient \in A
             isRecommended == lowerIngredient \in R
         IN [score |-> before.score - (IF isAvoided THEN 10 ELSE 0)
                                    - (IF isRecommended THEN 5 ELSE 0),
             matched |-> IF isRecommended THEN Append(before.matched, ings[n])
                                          ELSE before.matched,
             avoided |-> before.avoided \/ isAvoided]

RECURSIVE ScoreIngredients_ElseIf(_, _, _)
\* faulty variant: an avoided ingredient is not looked up in the recommended set
ScoreIngredients_ElseIf(ings, A, R) ==
    IF ings = <<>> THEN [score |-> 0, matched |-> <<>>, avoided |-> FALSE]
    ELSE LET n == Len(ings)
             before == ScoreIngredients_ElseIf(SubSeq(ings, 1, n - 1), A, R)
             lowerIngredient == ToLower(ings[n])
             isAvoided == lowerIngredient \in A
             isRecommended == ~isAvoided /\ lowerIngredient \in R
         IN [score |-> before.score - (IF isAvoided THEN 10 ELSE 0)
                                    + (IF isRecommended THEN 5 ELSE 0),
             matched |-> IF isRecommended THEN Append(before.matched, ings[n])
                                          ELSE before.matched,
             avoided |-> before.avoided \/ isAvoided]

RECURSIVE ScoreIngredients(_, _, _)
\* the forEach over product.ingredients
ScoreIngredients(ings, A, R) ==
    IF ings = <<>> THEN [score |-> 0, matched |-> <<>>, avoided |-> FALSE]
    ELSE LET n == Len(ings)
             before == ScoreIngredients(SubSeq(ings, 1, n - 1), A, R)
             lowerIngredient == ToLower(ings[n])
             isAvoided == lowerIngredient \in A
             isRecommended == lowerIngredient \in R
         IN [score |-> before.score - (IF isAvoided THEN 10 ELSE 0)
                                    + (IF isRecommended THEN 5 ELSE 0),
             matched |-> IF isRecommended THEN Append(before.matched, ings[n])
                                          ELSE before.matched,
             avoided |-> before.avoided \/ isAvoided]

\* benefit and symptom overlap when one lower-cased text includes the other
Overlaps(benefit, symptom) ==
    \/ Includes(ToLower(benefit), ToLower(symptom))
    \/ Includes(ToLower(symptom), ToLower(benefit))

\* the forEach over product.health_benefits x symptoms: 3 per overlapping pair
BenefitBonus(benefits, symptoms) ==
    3 * Cardinality({pair \in (1..Len(benefits)) \X (1..Len(symptoms)) :
                        Overlaps(benefits[pair[1]], symptoms[pair[2]])})

\* generateRecommendationReasons
generateRecommendationReasons(matchedIngredients, healthBenefits, symptoms) ==
    LET relevantBenefits ==
            SelectSeq(healthBenefits,
                      LAMBDA b : \E j \in 1..Len(symptoms) : Overlaps(b, symptoms[j]))
        first == IF Len(matchedIngredients) > 0
                   THEN <<[kind |-> "Contains beneficial ingredients",
                           list |-> matchedIngredients]>>
                   ELSE <<>>
        second == IF Len(relevantBenefits) > 0
                    THEN <<[kind |-> "Supports", list |-> relevantBenefits]>>
                    ELSE <<>>
        reasons == first \o second
    IN IF Len(reasons) = 0
         THEN <<[kind |-> "Nutritious and refreshing choice", list |-> <<>>]>>
         ELSE reasons

\* products.map(product => {...}): one scored product
ScoreProduct(product, A, R, symptoms) ==
    LET ing == ScoreIngredients(product.ingredients, A, R) IN
    [id |-> product.id,
     ingredients |-> product.ingredients,
     recommendation_score |-> ing.score + BenefitBonus(product.health_benefits, symptoms),
     matched_ingredients |-> ing.matched,
     has_avoided_ingredients |-> ing.avoided,
     recommendation_reasons |->
         generateRecommendationReasons(ing.matched, product.health_benefits, symptoms)]

\* faulty variant: the filter looks at the score alone
Qualifies_ScoreOnly(scored) == scored.recommendation_score > 0

\* the predicate of the scored path's filter
Qualifies(scored) ==
    ~scored.has_avoided_ingredients /\ scored.recommendation_score > 0

RECURSIVE InsertByScore_Unstable(_, _)
\* faulty variant: an element goes before the elements of equal score
InsertByScore_Unstable(x, sorted) ==
    IF sorted = <<>> THEN <<x>>
    ELSE IF Head(sorted).recommendation_score > x.recommendation_score
      THEN <<Head(sorted)>> \o InsertByScore_Unstable(x, Tail(sorted))
    ELSE <<x>> \o sorted

RECURSIVE InsertByScore(_, _)
InsertByScore(x, sorted) ==
    IF sorted = <<>> THEN <<x>>
    ELSE IF Head(sorted).recommendation_score >= x.recommendation_score
      THEN <<Head(sorted)>> \o InsertByScore(x, Tail(sorted))
    ELSE <<x>> \o sorted

RECURSIVE SortByScore(_)
\* .sort((a, b) => b.recommendation_score - a.recommendation_score): stable, descending
SortByScore(seq) ==
    IF seq = <<>> THEN <<>>
    ELSE InsertByScore(seq[Len(seq)], SortByScore(SubSeq(seq, 1, Len(seq) - 1)))

\* faulty variant: the list is not cut
Slice3_All(seq) == seq

\* .slice(0, 3)
Slice3(seq) == SubSeq(seq, 1, IF Len(seq) < 3 THEN Len(seq) ELSE 3)

\* faulty variant: the fallback filters nothing out
FallbackEligible_Any(product, A) == TRUE

\* the predicate of the fallback's filter: no ingredient is in the avoid set
FallbackEligible(product, A) ==
    ~\E i \in 1..Len(product.ingredients) : ToLower(product.ingredients[i]) \in A

\* faulty variant: the general recommendation keeps the score 0
GeneralRecommendation_Zero(product) ==
    [id |-> product.id,
     ingredients |-> product.ingredients,
     recommendation_score |-> 0,
     matched_ingredients |-> <<>>,
     has_avoided_ingredients |-> FALSE,
     recommendation_reasons |->
         <<[kind |-> "General wellness support", list |-> <<>>],
           [kind |-> "No conflicting ingredients", list |-> <<>>]>>]

\* a general recommendation
GeneralRecommendation(product) ==
    [id |-> product.id,
     ingredients |-> product.ingredients,
     recommendation_score |-> 1,
     matched_ingredients |-> <<>>,
     has_avoided_ingredients |-> FALSE,
     recommendation_reasons |->
         <<[kind |-> "General wellness support", list |-> <<>>],
           [kind |-> "No conflicting ingredients", list |-> <<>>]>>]

\* the orders .sort(() => Math.random() - 0.5) may leave n elements in
ShuffleOrders(n) == {f \in [1..n -> 1..n] : \A i, j \in 1..n : f[i] = f[j] => i = j}

NoRecResp ==
    [code |-> 0, message |-> "", recommendations |-> <<>>, symptoms_analyzed |-> <<>>,
     allergies_considered |-> <<>>, total_products_analyzed |-> -1,
     symptom_mappings_found |-> -1]

RecError(c, m) == [NoRecResp EXCEPT !.code = c, !.message = m]

InitRec ==
    [pc |-> "idle", body |-> [kind |-> "missing", symptoms |-> <<>>, allergies |-> <<>>],
     mappings |-> <<>>, products |-> <<>>, queries |-> 0, resp |-> NoRecResp]

\* schemas.getRecommendations: symptoms is a required list of at least one string
ValidRecommendationBody(body) == body.kind = "list" /\ Len(body.symptoms) >= 1

\* the handler's own guard: !symptoms || !Array.isArray(symptoms) || symptoms.length === 0
SymptomsRejected(body) == body.kind # "list" \/ Len(body.symptoms) = 0

\* faulty variant: neither the schema nor the handler's guard is applied
PostRecommendations_Unguarded(body) ==
    /\ rec.pc \in {"idle", "done"}
    /\ rec' = [InitRec EXCEPT !.pc = "rec_mappings", !.body = body]
    /\ UNCHANGED <<products, orders, order_items, nextOrderId, req, dlv>>

\* POST /recommendations: validateBody, then the handler's guard
PostRecommendations(body) ==
    /\ rec.pc \in {"idle", "done"}
    /\ rec' = IF ~ValidRecommendationBody(body)
                THEN [InitRec EXCEPT !.pc = "done", !.body = body,
                                     !.resp = RecError(400, "Validation error")]
              ELSE IF SymptomsRejected(body)
                THEN [InitRec EXCEPT !.pc = "done", !.body = body,
                                     !.resp = RecError(400, "At least one symptom is required")]
              ELSE [InitRec EXCEPT !.pc = "rec_mappings", !.body = body]
    /\ UNCHANGED <<products, orders, order_items, nextOrderId, req, dlv>>

\* the fetch of the symptom mappings
RecFetchMappings(out) ==
    /\ rec.pc = "rec_mappings"
    /\ rec' = IF out = "throw"
                THEN [rec EXCEPT !.pc = "done", !.queries = @ + 1,
                                 !.resp = RecError(500, "Internal server error")]
              ELSE IF out = "error"
                THEN [rec EXCEPT !.pc = "done", !.queries = @ + 1,
                                 !.resp = RecError(500, "Failed to fetch symptom mappings")]
              ELSE [rec EXCEPT !.pc = "rec_products", !.queries = @ + 1,
                               !.mappings = MatchingMappings(rec.body.symptoms)]
    /\ UNCHANGED <<products, orders, order_items, nextOrderId, req, dlv>>

\* the scored path's list
FilteredProducts(catalog, A, R, symptoms) ==
    Slice3(SortByScore(SelectSeq([i \in 1..Len(catalog) |->
                                     ScoreProduct(catalog[i], A, R, symptoms)],
                                 Qualifies)))

\* the fallback's list, for one outcome perm of the random sort
GeneralRecommendations(catalog, A, perm) ==
    LET eligible == SelectSeq(catalog, LAMBDA p : FallbackEligible(p, A))
        shuffled == [i \in 1..Len(eligible) |-> eligible[perm[i]]]
        top == Slice3(shuffled)
    IN [i \in 1..Len(top) |-> GeneralRecommendation(top[i])]

\* the fetch of the available products, the scoring and the response
RecFetchProducts(out, catalog) ==
    /\ rec.pc = "rec_products"
    /\ LET symptoms == rec.body.symptoms
           allergies == rec.body.allergies
           R == RecommendedSet(rec.mappings)
           A == AvoidSet(rec.mappings, allergies)
           filtered == FilteredProducts(catalog, A, R, symptoms)
           nEligible == Len(SelectSeq(catalog, LAMBDA p : FallbackEligible(p, A)))
       IN
       IF out = "throw"
         THEN rec' = [rec EXCEPT !.pc = "done", !.queries = @ + 1,
                                 !.resp = RecError(500, "Internal server error")]
       ELSE IF out = "error"
         THEN rec' = [rec EXCEPT !.pc = "done", !.queries = @ + 1,
                                 !.resp = RecError(500, "Failed to fetch products")]
       ELSE IF Len(filtered) = 0
         THEN \E perm \in ShuffleOrders(nEligible) :
                rec' = [rec EXCEPT
                    !.pc = "done",
                    !.queries = @ + 1,
                    !.products = catalog,
                    !.resp = [code |-> 200,
                              message |-> "No specific matches found",
                              recommendations |-> GeneralRecommendations(catalog, A, perm),
                              symptoms_analyzed |-> symptoms,
                              allergies_considered |-> allergies,
                              total_products_analyzed |-> Len(catalog),
                              symptom_mappings_found |-> -1]]
       ELSE rec' = [rec EXCEPT
                    !.pc = "done",
                    !.queries = @ + 1,
                    !.products = catalog,
                    !.resp = [code |-> 200,
                              message |-> "Recommendations generated successfully",
                              recommendations |-> filtered,
                              symptoms_analyzed |-> symptoms,
                              allergies_considered |-> allergies,
                              total_products_analyzed |-> Len(catalog),
                              symptom_mappings_found |-> Len(rec.mappings)]]
    /\ UNCHANGED <<products, orders, order_items, nextOrderId, req, dlv>>

----------------------------------------------------------------------------
\* Delivery endpoints: getDeliveryFee and checkDeliveryAvailability

Lats == {-91, -90, 0, 90}

Lngs == {-180, 0, 181}

\* what the resolver answers: 0, 0.1, 1.0, 2.0, 20.0, 20.01 and 20.5 km
DlvDistances == {0, 10, 100, 200, 2000, 2001, 2050}

\* helpers.js
isValidCoordinate(lat, lng) == lat >= -90 /\ lat <= 90 /\ lng >= -180 /\ lng <= 180

\* schemas.getDeliveryFee
ValidDeliveryQuery(lat, lng) == lat >= -90 /\ lat <= 90 /\ lng >= -180 /\ lng <= 180

MaxDeliveryDistance == 20

\* faulty variant: the radius itself is excluded
WithinRadius_Strict(distanceKm) == distanceKm < MaxDeliveryDistance * DistScale

\* distance_km <= 20
WithinRadius(distanceKm) == distanceKm <= MaxDeliveryDistance * DistScale

\* Math.ceil(baseTimeMinutes + perKmMinutes * distance_km)
EstimatedMinutes(distanceKm) == -((-(30 * DistScale + 10 * distanceKm)) \div DistScale)

\* a JavaScript boolean as it is serialised
JsBool(b) == IF b THEN "true" ELSE "false"

\* nearestOutlet && nearestOutlet.distance_km <= maxDeliveryDistance:
\* && yields its left operand when that is falsy
IsAvailable(found, distanceKm) ==
    IF ~found THEN "null" ELSE JsBool(WithinRadius(distanceKm))

NoDlvResp ==
    [code |-> 0, message |-> "", delivery_fee |-> -1, estimated_delivery_minutes |-> -1,
     delivery_available |-> "absent", nearest_outlet |-> "absent", distance_km |-> -1,
     data_message |-> ""]

DlvError(c, m) == [NoDlvResp EXCEPT !.code = c, !.message = m]

InitDlv ==
    [op |-> "none", pc |-> "idle", lat |-> 0, lng |-> 0, resolved |-> "pending",
     dist |-> -1, resp |-> NoDlvResp]

\* GET /delivery/fee and GET /delivery/availability: validateQuery, then the
\* handler's coordinate guard
GetDelivery(op, lat, lng) ==
    /\ dlv.pc \in {"idle", "done"}
    /\ dlv' = IF ~ValidDeliveryQuery(lat, lng)
                THEN [InitDlv EXCEPT !.op = op, !.pc = "done", !.lat = lat, !.lng = lng,
                                     !.resp = DlvError(400, "Query validation error")]
              ELSE IF ~isValidCoordinate(lat, lng)
                THEN [InitDlv EXCEPT !.op = op, !.pc = "done", !.lat = lat, !.lng = lng,
                                     !.resp = DlvError(400, "Invalid coordinates provided")]
              ELSE [InitDlv EXCEPT !.op = op, !.pc = "outlet", !.lat = lat, !.lng = lng]
    /\ UNCHANGED <<products, orders, order_items, nextOrderId, req, rec>>

\* getDeliveryFee after supabase.rpc('get_nearest_outlet')
DfNearestOutlet(res, d) ==
    /\ dlv.op = "getDeliveryFee" /\ dlv.pc = "outlet"
    /\ dlv' =
         IF res = "throw"
           THEN [dlv EXCEPT !.pc = "done", !.resolved = res,
                            !.resp = DlvError(500, "Internal server error")]
         ELSE IF res = "error"
           THEN [dlv EXCEPT !.pc = "done", !.resolved = res,
                            !.resp = DlvError(500, "Failed to find nearest outlet")]
         ELSE IF res = "none"
           THEN [dlv EXCEPT !.pc = "done", !.resolved = res,
                            !.resp = DlvError(404, "No outlets available in your area")]
         ELSE [dlv EXCEPT !.pc = "done", !.resolved = res, !.dist = d,
                          !.resp = [code |-> 200,
                                    message |-> "",
                                    delivery_fee |-> calculateDeliveryFee(d),
                                    estimated_delivery_minutes |-> EstimatedMinutes(d),
                                    delivery_available |-> JsBool(WithinRadius(d)),
                                    nearest_outlet |-> "outlet",
                                    distance_km |-> d,
                                    data_message |-> ""]]
    /\ UNCHANGED <<products, orders, order_items, nextOrderId, req, rec>>

\* the message of checkDeliveryAvailability
AvailabilityMessage(isAvailable, found) ==
    IF isAvailable = "true" THEN "Delivery available in your area"
    ELSE IF found THEN "Location is outside our delivery area"
    ELSE "No outlets found in your area"

\* checkDeliveryAvailability after supabase.rpc('get_nearest_outlet')
DaNearestOutlet(res, d) ==
    /\ dlv.op = "checkDeliveryAvailability" /\ dlv.pc = "outlet"
    /\ dlv' =
         IF res = "throw"
           THEN [dlv EXCEPT !.pc = "done", !.resolved = res,
                            !.resp = DlvError(500, "Internal server error")]
         ELSE IF res = "error"
           THEN [dlv EXCEPT !.pc = "done", !.resolved = res,
                            !.resp = DlvError(500, "Failed to check delivery availability")]
         ELSE LET found == res = "outlet"
                  isAvailable == IsAvailable(found, d)
              IN [dlv EXCEPT !.pc = "done", !.resolved = res,
                             !.dist = IF found THEN d ELSE -1,
                             !.resp = [code |-> 200,
                                       message |-> "",
                                       delivery_fee |-> -1,
                                       estimated_delivery_minutes |-> -1,
                                       delivery_available |-> isAvailable,
                                       nearest_outlet |-> IF found THEN "outlet" ELSE "null",
                                       distance_km |-> IF found THEN d ELSE -1,
                                       data_message |-> AvailabilityMessage(isAvailable, found)]]
    /\ UNCHANGED <<products, orders, order_items, nextOrderId, req, rec>>

----------------------------------------------------------------------------
\* The order pipeline as a system

InitProducts ==
    [p \in ProductIds |->
        [price_per_litre |-> IF p = "p1" THEN 15000 ELSE 18000, is_available |-> TRUE]]

Init ==
    /\ products = InitProducts
    /\ orders = << >>
    /\ order_items = << >>
    /\ nextOrderId = 0
    /\ req = [r \in Slots |-> IdleReq]
    /\ rec = InitRec
    /\ dlv = InitDlv

Next ==
    \/ \E r \in MainSlots, items \in ItemLists : PostOrder(r, "u1", items)
    \/ \E r \in MainSlots, d \in Distances, now \in RequestTimes : CoNearestOutlet(r, d, now)
    \/ \E r \in MainSlots : CoProduct(r)
    \/ \E r \in MainSlots : CoInsertHeader(r)
    \/ \E r \in MainSlots : CoInsertItems(r)
    \/ \E r \in MainSlots : CoRollback(r)
    \/ \E r \in MainSlots : CoFetchComplete(r)
    \/ \E p \in ProductIds, price \in Prices : ChangePrice(p, price)
    \/ \E p \in ProductIds, b \in BOOLEAN : SetAvailable(p, b)

Spec == Init /\ [][Next]_vars

----------------------------------------------------------------------------
\* Cancellation as a system: orders are created, the fulfilment side advances
\* them, and either user asks to cancel any order id.

CancelItems == <<Item("p1", 5)>>

NextCancel ==
    \/ \E r \in MainSlots, u \in Users : PostOrder(r, u, CancelItems)
    \/ \E r \in MainSlots : CoNearestOutlet(r, 10, 7)
    \/ \E r \in MainSlots : CoProduct(r)
    \/ \E r \in MainSlots : CoInsertHeader(r)
    \/ \E r \in MainSlots : CoInsertItems(r)
    \/ \E r \in MainSlots : CoRollback(r)
    \/ \E r \in MainSlots : CoFetchComplete(r)
    \/ \E r \in MainSlots, u \in Users, id \in 1..MaxOrders : PutCancel(r, u, id)
    \/ \E r \in MainSlots : CaFetch(r)
    \/ \E r \in MainSlots : CaUpdate(r)
    \/ \E id \in 1..MaxOrders : AdvanceStatus(id)

SpecCancel == Init /\ [][NextCancel]_vars

----------------------------------------------------------------------------
\* Reordering as a system: an order is created, the catalog is repriced, and
\* either user reorders any order id with any body.

NextReorder ==
    \/ \E r \in MainSlots : PostOrder(r, "u1", CancelItems)
    \/ \E r \in MainSlots, u \in Users, id \in 1..MaxOrders, ov \in Overrides :
          PostReorder(r, u, id, ov)
    \/ \E r \in MainSlots : RoFetch(r)
    \/ \E r \in MainSlots : CoNearestOutlet(r, 10, 7)
    \/ \E r \in MainSlots : CoProduct(r)
    \/ \E r \in MainSlots : CoInsertHeader(r)
    \/ \E r \in MainSlots : CoInsertItems(r)
    \/ \E r \in MainSlots : CoRollback(r)
    \/ \E r \in MainSlots : CoFetchComplete(r)
    \/ \E price \in Prices : ChangePrice("p1", price)

SpecReorder == Init /\ [][NextReorder]_vars

----------------------------------------------------------------------------
\* Tracking as a system: orders are created, advanced and cancelled, and either
\* user asks for the status of any order id at any time.

NextStatusSystem ==
    \/ \E r \in MainSlots : PostOrder(r, "u1", CancelItems)
    \/ \E r \in MainSlots : CoNearestOutlet(r, 10, 7)
    \/ \E r \in MainSlots : CoProduct(r)
    \/ \E r \in MainSlots : CoInsertHeader(r)
    \/ \E r \in MainSlots : CoInsertItems(r)
    \/ \E r \in MainSlots : CoRollback(r)
    \/ \E r \in MainSlots : CoFetchComplete(r)
    \/ \E r \in MainSlots, id \in 1..MaxOrders : PutCancel(r, "u1", id)
    \/ \E r \in MainSlots : CaFetch(r)
    \/ \E r \in MainSlots : CaUpdate(r)
    \/ \E id \in 1..MaxOrders : AdvanceStatus(id)
    \/ \E r \in MainSlots, u \in Users, id \in 1..MaxOrders : GetStatus(r, u, id)
    \/ \E r \in MainSlots, now \in StatusTimes : GsFetch(r, now)

SpecStatus == Init /\ [][NextStatusSystem]_vars

----------------------------------------------------------------------------
\* Cancellation under concurrency: two requests are served at once, so a
\* cancelOrder runs beside another cancelOrder and beside the fulfilment side.

NextRace ==
    \/ \E r \in MainSlots : PostOrder(r, "u1", CancelItems)
    \/ \E r \in MainSlots : CoNearestOutlet(r, 10, 7)
    \/ \E r \in MainSlots : CoProduct(r)
    \/ \E r \in MainSlots : CoInsertHeader(r)
    \/ \E r \in MainSlots : CoInsertItems(r)
    \/ \E r \in MainSlots : CoRollback(r)
    \/ \E r \in MainSlots : CoFetchComplete(r)
    \/ \E r \in Slots, id \in 1..MaxOrders : PutCancel(r, "u1", id)
    \/ \E r \in Slots : CaFetch(r)
    \/ \E r \in Slots : CaUpdate(r)
    \/ \E id \in 1..MaxOrders : AdvanceStatus(id)

SpecRace == Init /\ [][NextRace]_vars

----------------------------------------------------------------------------
\* Properties of the order pipeline

InFlight(r, id) == req[r].op = "createOrder" /\ req[r].orderId = id /\ req[r].pc = "co_items"

\* every stored header is the sum of its line items plus the fee
C1_Stored ==
    \A id \in DOMAIN orders :
        /\ id \in DOMAIN order_items =>
              /\ orders[id].total_amount
                   = SumSubtotals(order_items[id]) + orders[id].delivery_fee * QtyScale
              /\ \A i \in 1..Len(order_items[id]) :
                    order_items[id][i].subtotal
                      = order_items[id][i].unit_price * order_items[id][i].quantity_litres
        /\ \A r \in Slots : InFlight(r, id) =>
              /\ Len(req[r].orderItems) = Len(req[r].items)
              /\ \A i \in 1..Len(req[r].items) :
                    /\ req[r].orderItems[i].product_id = req[r].items[i].product_id
                    /\ req[r].orderItems[i].quantity_litres = req[r].items[i].quantity_litres
              /\ orders[id].total_amount
                   = SumSubtotals(req[r].orderItems) + orders[id].delivery_fee * QtyScale

\* a pricing step records the price the catalog holds at that moment; the rows
\* inserted are the rows priced; a stored header or row is never repriced
C1_Step ==
    /\ \A r \in Slots :
          (req[r].pc = "co_product" /\ Len(req'[r].orderItems) = Len(req[r].orderItems) + 1) =>
              LET item == req[r].items[req[r].idx]
                  row == req'[r].orderItems[Len(req'[r].orderItems)]
              IN /\ row.unit_price = products[item.product_id].price_per_litre
                 /\ row.subtotal = products[item.product_id].price_per_litre
                                      * item.quantity_litres
    /\ \A r \in Slots :
          (req[r].pc = "co_items" /\ req[r].orderId \in DOMAIN order_items'
             /\ req[r].orderId \notin DOMAIN order_items) =>
              \A i \in 1..Len(req[r].orderItems) :
                  /\ order_items'[req[r].orderId][i].unit_price = req[r].orderItems[i].unit_price
                  /\ order_items'[req[r].orderId][i].subtotal = req[r].orderItems[i].subtotal
    /\ \A id \in DOMAIN orders \cap DOMAIN orders' :
          /\ orders'[id].total_amount = orders[id].total_amount
          /\ orders'[id].delivery_fee = orders[id].delivery_fee
    /\ \A id \in DOMAIN order_items \cap DOMAIN order_items' :
          order_items'[id] = order_items[id]

\* C1: every persisted header has total_amount = sum over the requested items of
\* (price read in this request x quantity) + delivery_fee, every persisted line item
\* has unit_price = that price and subtotal = unit_price x quantity, and no later
\* change of a product price changes a stored total or row.
C1_TotalIsItemsPlusFee == []C1_Stored /\ [][C1_Step]_vars

\* the spec's example (15000 x 0.5, 18000 x 1.0, 3.0 km: fee 8000, total 33500)
\* is stored, and p1 has been repriced since
C1_Witness ==
    \E id \in DOMAIN orders \cap DOMAIN order_items :
        /\ Len(order_items[id]) = 2
        /\ order_items[id][1].unit_price = 15000 /\ order_items[id][1].quantity_litres = 5
        /\ order_items[id][2].unit_price = 18000 /\ order_items[id][2].quantity_litres = 10
        /\ orders[id].delivery_fee = 8000
        /\ orders[id].total_amount = 33500 * QtyScale
        /\ products["p1"].price_per_litre # 15000

\* C2: a createOrder that has completed reporting the item-creation failure has
\* left no header of its order in the orders store.
C2_NoHeaderWithoutItems ==
    \A r \in Slots :
        (req[r].op = "createOrder" /\ req[r].pc = "done"
           /\ req[r].resp.message = "Failed to create order items") =>
            req[r].orderId \notin DOMAIN orders

NoOutletResp == Resp(400, "No outlets available in your area")

\* the step in which createOrder learns that no outlet was resolved
C11_Step(r) ==
    (req[r].pc = "co_outlet" /\ req'[r].outlet = "none") =>
        /\ req'[r].pc = "done"
        /\ req'[r].resp = NoOutletResp
        /\ req'[r].orderItems = <<>>
        /\ req'[r].orderId = 0
        /\ products' = products
        /\ orders' = orders
        /\ order_items' = order_items
        /\ nextOrderId' = nextOrderId

\* C11: when the resolver returns no outlet, createOrder answers the
\* no-outlet-available response in that very step; no product has been priced, no
\* header and no item row is inserted, and the store is as it was.
C11_NoOutletNoWrite ==
    /\ [](\A r \in Slots : req[r].outlet = "none" =>
              /\ req[r].pc = "done" /\ req[r].resp = NoOutletResp
              /\ req[r].orderId = 0 /\ req[r].orderItems = <<>>)
    /\ [][\A r \in Slots : C11_Step(r)]_vars

\* a createOrder was refused for want of an outlet while the store already held an
\* order with its items
C11_Witness ==
    /\ \E r \in Slots : /\ req[r].op = "createOrder" /\ req[r].pc = "done"
                          /\ req[r].outlet = "none" /\ req[r].resp = NoOutletResp
    /\ \E id \in DOMAIN orders : id \in DOMAIN order_items

\* the step of the pricing loop that meets a product that is not available
C12_Step(r) ==
    (/\ req[r].pc = "co_product"
     /\ ~products[req[r].items[req[r].idx].product_id].is_available
     /\ req'[r] # req[r]) =>
        /\ req'[r].pc = "done"
        /\ req'[r].resp.code \in {400, 500}
        /\ req'[r].resp.code = 400 =>
              req'[r].resp = RespData(400, "Product not found or unavailable",
                                      req[r].items[req[r].idx].product_id)
        /\ req'[r].resp.code = 500 => req'[r].resp = Resp(500, "Internal server error")
        /\ req'[r].orderId = 0
        /\ orders' = orders
        /\ order_items' = order_items
        /\ nextOrderId' = nextOrderId

\* every product lookup of a request precedes its first write
C12_LookupsFirst ==
    \A r \in Slots :
        /\ req[r].pc \in {"co_outlet", "co_product"} => req[r].orderId = 0
        /\ req[r].pc \in {"co_header", "co_items"} =>
              Len(req[r].orderItems) = Len(req[r].items)
        /\ (req[r].pc = "done" /\ req[r].resp.message = "Product not found or unavailable") =>
              req[r].orderId = 0

\* C12: when the product of a requested item, at whatever position of the list, is
\* missing or not available, createOrder answers the response that names that
\* product_id (or the store's failure, if the lookup throws) and has written no
\* header and no item row: all lookups come before the first write.
C12_UnavailableNoWrite ==
    /\ []C12_LookupsFirst
    /\ [][\A r \in Slots : C12_Step(r)]_vars

\* the second item's product went unavailable after the first item was priced, and
\* the request was refused naming p2
C12_Witness ==
    \E r \in Slots :
        /\ req[r].op = "createOrder" /\ req[r].pc = "done"
        /\ req[r].idx = 2
        /\ req[r].resp = RespData(400, "Product not found or unavailable", "p2")
        /\ req[r].orderId = 0
        /\ products["p1"].is_available

\* the value the new order must hold for a field: the caller's when supplied,
\* otherwise the original's
Chosen(supplied, original) == IF supplied.given THEN supplied.value ELSE original

\* C13: the order a reorder creates holds the original order's (product_id,
\* quantity_litres) items, and for each of delivery_address, delivery_lat,
\* delivery_lng and payment_method the caller's value whenever the caller supplied
\* one, otherwise the original order's value.
C13_OverridesUsed ==
    \A r \in Slots :
        (/\ req[r].op = "reorder"
         /\ req[r].orderId \in DOMAIN orders
         /\ req[r].target \in DOMAIN orders
         /\ req[r].target \in DOMAIN order_items) =>
            LET new == orders[req[r].orderId]
                original == orders[req[r].target]
                ov == req[r].override
            IN /\ new.delivery_address = Chosen(ov.delivery_address, original.delivery_address)
               /\ new.delivery_lat = Chosen(ov.delivery_lat, original.delivery_lat)
               /\ new.delivery_lng = Chosen(ov.delivery_lng, original.delivery_lng)
               /\ new.payment_method = Chosen(ov.payment_method, original.payment_method)
               /\ req[r].orderId \in DOMAIN order_items =>
                       ReorderItems(order_items[req[r].orderId])
                         = ReorderItems(order_items[req[r].target])

----------------------------------------------------------------------------
\* Properties of tracking

StatusAnswered(r) ==
    req[r].op = "getOrderStatus" /\ req[r].pc = "done" /\ req[r].resp.code = 200

\* the percentage the specification gives for a status
ProgressOf(status) ==
    CASE status = "pending" -> 10
      [] status = "confirmed" -> 25
      [] status = "preparing" -> 50
      [] status = "out_for_delivery" -> 75
      [] status = "delivered" -> 100
      [] status = "cancelled" -> 0

\* the whole minutes in a span of tenths of a minute: the greatest m with
\* m minutes <= span
WholeMinutes(span) ==
    CHOOSE m \in -400..400 : m * TimeScale <= span /\ (m + 1) * TimeScale > span

C14_Answer(r) ==
    StatusAnswered(r) =>
        LET d == req[r].resp.data
            left == d.estimated_delivery_time - req[r].now
        IN /\ d.status \in Statuses
           /\ d.progress_percentage = ProgressOf(d.status)
           /\ d.status \notin {"delivered", "cancelled"} =>
                 /\ ~d.time_remaining.null
                 /\ d.time_remaining.minutes >= 0
                 /\ d.time_remaining.minutes
                      = (IF WholeMinutes(left) > 0 THEN WholeMinutes(left) ELSE 0)
           /\ d.status \in {"delivered", "cancelled"} => d.time_remaining.null

\* the step in which getOrderStatus answers
C14_Step(r) ==
    (req[r].pc = "gs_fetch" /\ req'[r].pc = "done") =>
        /\ orders' = orders
        /\ order_items' = order_items
        /\ req'[r].resp.code = 200 =>
              /\ req[r].target \in DOMAIN orders
              /\ req'[r].resp.data.status = orders[req[r].target].status
              /\ req'[r].resp.data.estimated_delivery_time
                    = orders[req[r].target].estimated_delivery_time

\* C14: getOrderStatus answers progress 10/25/50/75/100/0 for pending, confirmed,
\* preparing, out_for_delivery, delivered, cancelled; time_remaining is
\* max(0, estimated_delivery_time - now) in whole minutes, never negative, exactly
\* when the status is neither delivered nor cancelled, and null otherwise; the
\* operation changes no order.
C14_StatusView ==
    /\ [](\A r \in Slots : C14_Answer(r))
    /\ [][\A r \in Slots : C14_Step(r)]_vars

\* an order in preparation was asked about after its estimated delivery time: 0
\* minutes remain
C14_Witness ==
    \E r \in Slots :
        /\ StatusAnswered(r)
        /\ req[r].resp.data.status = "preparing"
        /\ req[r].resp.data.progress_percentage = 50
        /\ req[r].now > req[r].resp.data.estimated_delivery_time
        /\ req[r].resp.data.time_remaining = [null |-> FALSE, minutes |-> 0]

----------------------------------------------------------------------------
\* Properties of cancellation

\* the step in which cancelOrder reads the order
C3_Read(r) ==
    LET id == req[r].target
        owned == id \in DOMAIN orders /\ orders[id].user_id = req[r].user
    IN (req[r].pc = "ca_fetch" /\ req'[r].pc # "ca_fetch") =>
         /\ orders' = orders
         /\ req'[r].pc = "ca_update" =>
               owned /\ orders[id].status \in {"pending", "confirmed"}
         /\ (owned /\ orders[id].status \notin {"pending", "confirmed"}) =>
               /\ req'[r].pc = "done"
               /\ req'[r].resp.code \in {400, 404, 500}
               /\ req'[r].resp.code = 404 => req'[r].resp.message = "Order not found"
               /\ req'[r].resp.code = 500 => req'[r].resp.message = "Internal server error"
         /\ req'[r].resp.code = 400 =>
               /\ req'[r].resp.message = "Order cannot be cancelled at this stage"
               /\ owned /\ orders[id].status \notin {"pending", "confirmed"}

\* the step in which cancelOrder answers success
C3_Success(r) ==
    (req[r].op = "cancelOrder" /\ req[r].pc # "done"
       /\ req'[r].pc = "done" /\ req'[r].resp.code = 200) =>
         /\ req[r].pc = "ca_update"
         /\ req[r].readStatus \in {"pending", "confirmed"}
         /\ req[r].target \in DOMAIN orders' => orders'[req[r].target].status = "cancelled"

\* C3: cancelOrder on an order of the caller answers success only if the status it
\* read was pending or confirmed, and its write leaves the status cancelled; on any
\* other status it answers the invalid-state response (or the store's failure) and
\* writes nothing.
C3_CancelGuard == [][\A r \in Slots : C3_Read(r) /\ C3_Success(r)]_vars

\* order 1 was cancelled, and a cancel of order 2 in status preparing was refused
C3_Witness ==
    /\ DOMAIN orders = {1, 2}
    /\ orders[1].status = "cancelled"
    /\ orders[2].status = "preparing"
    /\ \E r \in Slots :
          /\ req[r].op = "cancelOrder" /\ req[r].pc = "done" /\ req[r].target = 2
          /\ req[r].readStatus = "preparing"
          /\ req[r].resp = Resp(400, "Order cannot be cancelled at this stage")

\* the step in which request r writes status = cancelled on order id
CancelWrites(r, id) ==
    /\ req[r].op = "cancelOrder" /\ req[r].pc = "ca_update" /\ req[r].target = id
    /\ req'[r].pc = "done" /\ req'[r].resp.code = 200
    /\ id \in DOMAIN orders

\* C17: under every interleaving of a cancelOrder with another cancelOrder or with
\* a status advance between its read and its write, an order's status is set to
\* cancelled only if its status immediately before that write was pending or
\* confirmed.
C17_CancelOnlyFromOpen ==
    [][\A r \in Slots : \A id \in 1..MaxOrders :
          CancelWrites(r, id) => orders[id].status \in {"pending", "confirmed"}]_vars

----------------------------------------------------------------------------
\* The recommendation engine as a system

NextRec ==
    \/ \E body \in RecBodies : PostRecommendations(body)
    \/ \E out \in Outcomes : RecFetchMappings(out)
    \/ \E out \in Outcomes, catalog \in Catalogs : RecFetchProducts(out, catalog)

SpecRec == Init /\ [][NextRec]_vars

----------------------------------------------------------------------------
\* The delivery endpoints as a system

DlvOps == {"getDeliveryFee", "checkDeliveryAvailability"}

NextDlv ==
    \/ \E op \in DlvOps, lat \in Lats, lng \in Lngs : GetDelivery(op, lat, lng)
    \/ \E res \in Resolutions, d \in DlvDistances : DfNearestOutlet(res, d)
    \/ \E res \in Resolutions, d \in DlvDistances : DaNearestOutlet(res, d)

SpecDlv == Init /\ [][NextDlv]_vars

\* The two users of calculateDeliveryFee side by side: getDeliveryFee and a
\* createOrder that prices one item

NextFee ==
    \/ \E lat \in {0}, lng \in {0, 181} : GetDelivery("getDeliveryFee", lat, lng)
    \/ \E res \in Resolutions, d \in DlvDistances : DfNearestOutlet(res, d)
    \/ \E r \in MainSlots : PostOrder(r, "u1", CancelItems)
    \/ \E r \in MainSlots, d \in DlvDistances : CoNearestOutlet(r, d, 7)
    \/ \E r \in MainSlots : CoProduct(r)
    \/ \E r \in MainSlots : CoInsertHeader(r)
    \/ \E r \in MainSlots : CoInsertItems(r)
    \/ \E r \in MainSlots : CoRollback(r)
    \/ \E r \in MainSlots : CoFetchComplete(r)

SpecFee == Init /\ [][NextFee]_vars

----------------------------------------------------------------------------
\* Properties of the recommendation engine

RecReturned == rec.pc = "done" /\ rec.resp.code = 200

RecFallback == RecReturned /\ rec.resp.message = "No specific matches found"

RecScored == RecReturned /\ rec.resp.message = "Recommendations generated successfully"

\* the caller's allergies, case-folded
AllergySetG == {ToLower(rec.body.allergies[i]) : i \in 1..Len(rec.body.allergies)}

\* the avoid set of the request: the avoided ingredients of the mappings fetched and
\* the caller's allergies, case-folded
AvoidSetA ==
    UNION {LowerSet(rec.mappings[i].avoid_ingredients) : i \in 1..Len(rec.mappings)}
    \cup AllergySetG

HasIngredientIn(ingredients, set) ==
    \E k \in 1..Len(ingredients) : ToLower(ingredients[k]) \in set

\* C4: no product returned, on the scored or the fallback path, has an ingredient
\* that is, compared case-insensitively, one of the caller's allergies.
C4_NoAllergenReturned ==
    RecReturned =>
        \A i \in 1..Len(rec.resp.recommendations) :
            ~HasIngredientIn(rec.resp.recommendations[i].ingredients, AllergySetG)

\* the allergy is written "Gi", products of the catalog hold "gi" and "Gi", and
\* something was still recommended
C4_Witness ==
    /\ RecReturned
    /\ rec.body.allergies = <<Gin>>
    /\ \E i \in 1..Len(rec.products) : gin \in Range(rec.products[i].ingredients)
    /\ \E i \in 1..Len(rec.products) : Gin \in Range(rec.products[i].ingredients)
    /\ Len(rec.resp.recommendations) > 0

\* C5: no product with an ingredient in the avoid set A is returned on either
\* path, whatever its score, and every returned item has has_avoided_ingredients
\* = false.
C5_NoAvoidedReturned ==
    RecReturned =>
        \A i \in 1..Len(rec.resp.recommendations) :
            /\ ~HasIngredientIn(rec.resp.recommendations[i].ingredients, AvoidSetA)
            /\ rec.resp.recommendations[i].has_avoided_ingredients = FALSE

\* the catalog held a product with an avoided ingredient whose score was positive,
\* and the scored path answered
C5_Witness ==
    /\ RecScored
    /\ \E i \in 1..Len(rec.products) :
          LET scored == ScoreProduct(rec.products[i], AvoidSetA,
                                     RecommendedSet(rec.mappings), rec.body.symptoms)
          IN scored.has_avoided_ingredients /\ scored.recommendation_score > 0

\* C6: the recommendations list never has more than 3 entries.
C6_AtMostThree == RecReturned => Len(rec.resp.recommendations) <= 3

CountWithout(set) ==
    Cardinality({i \in 1..Len(rec.products) :
                    ~HasIngredientIn(rec.products[i].ingredients, set)})

\* more than 3 products qualified on the scored path and 3 were returned
C6_Witness ==
    /\ RecScored
    /\ Len(rec.resp.recommendations) = 3
    /\ Cardinality({i \in 1..Len(rec.products) :
          Qualifies(ScoreProduct(rec.products[i], AvoidSetA,
                                 RecommendedSet(rec.mappings), rec.body.symptoms))}) > 3

Min(a, b) == IF a < b THEN a ELSE b

\* C7 as stated: the fallback returns min(3, number of products with no ingredient
\* among the caller's allergies G).
C7_FallbackCountByAllergies ==
    RecFallback => Len(rec.resp.recommendations) = Min(3, CountWithout(AllergySetG))

\* C7, amended: the fallback returns min(3, number of available products with no
\* ingredient in the avoid set A), A being the allergies together with the
\* avoid_ingredients of the mappings fetched.
C7_FallbackCountByAvoidSet ==
    RecFallback => Len(rec.resp.recommendations) = Min(3, CountWithout(AvoidSetA))

\* a fallback in which a mapping's avoided ingredient, not an allergy, excluded a product
C7_Witness ==
    /\ RecFallback
    /\ CountWithout(AvoidSetA) < CountWithout(AllergySetG)
    /\ CountWithout(AvoidSetA) < 3
    /\ Len(rec.resp.recommendations) = CountWithout(AvoidSetA)

\* the body has no usable symptoms: missing, not a list, or an empty list
NoSymptoms == rec.body.kind \in {"missing", "notlist"} \/ rec.body.symptoms = <<>>

\* C15: getRecommendations answers 400 when symptoms is missing, is not a list or
\* is an empty list, and such a request issues no store query: neither the symptom
\* mappings nor the products are fetched.
C15_InvalidInput ==
    /\ (rec.pc # "idle" /\ NoSymptoms) =>
          /\ rec.pc = "done"
          /\ rec.resp.code = 400
          /\ rec.queries = 0
          /\ rec.mappings = <<>> /\ rec.products = <<>>
          /\ rec.resp.recommendations = <<>>
    /\ rec.queries > 0 => ~NoSymptoms

\* an empty symptoms list, sent with an allergy, was refused
C15_Witness ==
    /\ rec.pc = "done"
    /\ rec.body.kind = "list" /\ rec.body.symptoms = <<>> /\ rec.body.allergies = <<nut>>
    /\ rec.resp.code = 400
    /\ rec.queries = 0

\* the ingredient texts of the model
Ingredients == {gin, Gin, lem, ora, dai, nut, Nut, wat}

\* the recommended set of the request
RecommendedSetR == RecommendedSet(rec.mappings)

\* the product as the engine scores it for the request at hand
Scored(product) == ScoreProduct(product, AvoidSetA, RecommendedSetR, rec.body.symptoms)

\* the same product with one more ingredient, put last or first
WithLast(product, x) == [product EXCEPT !.ingredients = Append(@, x)]

WithFirst(product, x) == [product EXCEPT !.ingredients = <<x>> \o @]

\* the ingredients that are recommended and not avoided for the request
MatchOnly == {x \in Ingredients : ToLower(x) \in RecommendedSetR \ AvoidSetA}

\* C16: for a product with no ingredient in the avoid set A, with health_benefits
\* and symptoms held fixed, one more ingredient of the recommended set R never
\* lowers the score: k+1 matched ingredients score at least what k score.
C16_ScoreMonotone ==
    rec.pc = "done" =>
        \A i \in 1..Len(rec.products) : \A x \in MatchOnly :
            LET product == rec.products[i]
                more == WithLast(product, x)
                front == WithFirst(product, x)
            IN ~Scored(product).has_avoided_ingredients =>
                 /\ ~Scored(more).has_avoided_ingredients
                 /\ Len(Scored(more).matched_ingredients)
                      = Len(Scored(product).matched_ingredients) + 1
                 /\ Scored(more).recommendation_score >= Scored(product).recommendation_score
                 /\ Scored(front).recommendation_score >= Scored(product).recommendation_score

\* a product without avoided ingredients that matches one recommended ingredient
\* scores 5 more with a second one
C16_Witness ==
    /\ RecScored
    /\ \E i \in 1..Len(rec.products) : \E x \in MatchOnly :
          /\ ~Scored(rec.products[i]).has_avoided_ingredients
          /\ Len(Scored(rec.products[i]).matched_ingredients) = 1
          /\ Len(Scored(WithLast(rec.products[i], x)).matched_ingredients) = 2
          /\ Scored(WithLast(rec.products[i], x)).recommendation_score
               = Scored(rec.products[i]).recommendation_score + 5

\* how many ingredients, one per position, have their case-folded form in set
CountIn(ingredients, set) ==
    Cardinality({k \in 1..Len(ingredients) : ToLower(ingredients[k]) \in set})

\* how many (health_benefit, symptom) pairs have one case-folded text inside the other
CountPairs(benefits, symptoms) ==
    Cardinality({pair \in (1..Len(benefits)) \X (1..Len(symptoms)) :
        \/ Includes(ToLower(benefits[pair[1]]), ToLower(symptoms[pair[2]]))
        \/ Includes(ToLower(symptoms[pair[2]]), ToLower(benefits[pair[1]]))})

\* the score the specification gives a product for the request at hand
ExpectedScore(product) ==
    5 * CountIn(product.ingredients, RecommendedSetR)
    + 3 * CountPairs(product.health_benefits, rec.body.symptoms)
    - 10 * CountIn(product.ingredients, AvoidSetA)

\* the ingredients counted for R, in product order and as the product spells them
ExpectedMatched(product) ==
    SelectSeq(product.ingredients, LAMBDA x : ToLower(x) \in RecommendedSetR)

\* the catalog row a returned item was made from
ProductOf(item) == CHOOSE i \in 1..Len(rec.products) : rec.products[i].id = item.id

\* C18: the score of each available product is -10 per ingredient whose case-folded
\* form is in A, +5 per ingredient whose case-folded form is in R, +3 per
\* (health_benefit, symptom) pair in which one case-folded text contains the other,
\* with no cap; an ingredient in both A and R counts for both; matched_ingredients
\* lists the ingredients counted for R in product order and original casing. The
\* items of the scored response carry exactly these values.
C18_ScoreFormula ==
    RecReturned =>
        /\ \A i \in 1..Len(rec.products) :
              /\ Scored(rec.products[i]).recommendation_score = ExpectedScore(rec.products[i])
              /\ Scored(rec.products[i]).matched_ingredients = ExpectedMatched(rec.products[i])
              /\ Scored(rec.products[i]).has_avoided_ingredients
                    <=> CountIn(rec.products[i].ingredients, AvoidSetA) > 0
        /\ RecScored =>
              \A k \in 1..Len(rec.resp.recommendations) :
                LET item == rec.resp.recommendations[k]
                    product == rec.products[ProductOf(item)]
                IN /\ item.recommendation_score = ExpectedScore(product)
                   /\ item.matched_ingredients = ExpectedMatched(product)

\* the request is allergic to an ingredient its symptoms recommend: "Gi" of product
\* 1 counts -10 and +5 and is listed as matched with its capital; product 5 earns
\* 3 twice for two benefits matching the symptom and is returned with score 16
C18_Witness ==
    /\ RecScored
    /\ \E i \in 1..Len(rec.products) :
          /\ rec.products[i].ingredients = <<Gin, lem>>
          /\ gin \in AvoidSetA \cap RecommendedSetR
          /\ Scored(rec.products[i]).recommendation_score = 0
          /\ Scored(rec.products[i]).matched_ingredients = <<Gin, lem>>
    /\ \E k \in 1..Len(rec.resp.recommendations) :
          /\ rec.resp.recommendations[k].id = 5
          /\ rec.resp.recommendations[k].recommendation_score = 16

\* the catalog rows that qualify for the scored path
QualifyingRows ==
    {i \in 1..Len(rec.products) :
        /\ ~Scored(rec.products[i]).has_avoided_ingredients
        /\ Scored(rec.products[i]).recommendation_score > 0}

\* row i comes before row j in the scored order: higher score, or equal score and
\* earlier in the catalog
Before(i, j) ==
    \/ Scored(rec.products[i]).recommendation_score > Scored(rec.products[j]).recommendation_score
    \/ /\ Scored(rec.products[i]).recommendation_score
            = Scored(rec.products[j]).recommendation_score
       /\ i < j

\* C19: on the scored path the list is the first 3 (or fewer) of the products with
\* has_avoided_ingredients = false and score > 0, by score descending, equal scores
\* in catalog order; no product with score <= 0 is returned, and no qualifying
\* product is left out while one that comes after it is returned.
C19_TopThreeStable ==
    RecScored =>
        LET list == rec.resp.recommendations
            row(k) == ProductOf(list[k])
            returned == {row(k) : k \in 1..Len(list)}
        IN /\ Len(list) = Min(3, Cardinality(QualifyingRows))
           /\ \A k \in 1..Len(list) :
                 /\ row(k) \in QualifyingRows
                 /\ list[k] = Scored(rec.products[row(k)])
                 /\ list[k].recommendation_score > 0
           /\ \A k, l \in 1..Len(list) : k < l => Before(row(k), row(l))
           /\ \A i \in QualifyingRows \ returned : \A j \in returned : Before(j, i)

\* four products qualify, two of them with the same score: the earlier one is
\* returned third and the later one is left out
C19_Witness ==
    /\ RecScored
    /\ Cardinality(QualifyingRows) = 4
    /\ Len(rec.resp.recommendations) = 3
    /\ \E i \in QualifyingRows :
          /\ rec.products[i].id # rec.resp.recommendations[3].id
          /\ Scored(rec.products[i]).recommendation_score
               = rec.resp.recommendations[3].recommendation_score
          /\ ProductOf(rec.resp.recommendations[3]) < i

\* the mappings whose stored symptom is one of the request's lower-cased symptoms
MappingsMatched ==
    Cardinality({m \in 1..Len(SymptomsIngredients) :
        \E j \in 1..Len(rec.body.symptoms) :
            SymptomsIngredients[m].symptom = ToLower(rec.body.symptoms[j])})

FixedReasons ==
    <<[kind |-> "General wellness support", list |-> <<>>],
      [kind |-> "No conflicting ingredients", list |-> <<>>]>>

\* C20: the fallback is taken exactly when no available product has
\* has_avoided_ingredients = false and score > 0; every fallback item is a distinct
\* available product with no ingredient in A, with recommendation_score 1, no
\* matched ingredient, has_avoided_ingredients = false and the two fixed reasons;
\* the fallback answers the 'no specific matches' message without
\* symptom_mappings_found, the scored answer has symptom_mappings_found = the
\* number of mappings matched.
C20_Fallback ==
    RecReturned =>
        LET list == rec.resp.recommendations IN
        /\ RecFallback <=> QualifyingRows = {}
        /\ RecScored <=> QualifyingRows # {}
        /\ RecFallback =>
              /\ rec.resp.symptom_mappings_found = -1
              /\ \A k \in 1..Len(list) :
                    /\ \E i \in 1..Len(rec.products) :
                          /\ rec.products[i].id = list[k].id
                          /\ rec.products[i].ingredients = list[k].ingredients
                          /\ CountIn(rec.products[i].ingredients, AvoidSetA) = 0
                    /\ list[k].recommendation_score = 1
                    /\ list[k].matched_ingredients = <<>>
                    /\ list[k].has_avoided_ingredients = FALSE
                    /\ list[k].recommendation_reasons = FixedReasons
              /\ \A k, l \in 1..Len(list) : k # l => list[k].id # list[l].id
        /\ RecScored => rec.resp.symptom_mappings_found = MappingsMatched

\* a fallback with a general recommendation, taken although a product scored
\* above 0: that product holds an avoided ingredient
C20_Witness ==
    /\ RecFallback
    /\ Len(rec.resp.recommendations) = 1
    /\ rec.resp.recommendations[1].recommendation_score = 1
    /\ \E i \in 1..Len(rec.products) :
          /\ Scored(rec.products[i]).recommendation_score > 0
          /\ Scored(rec.products[i]).has_avoided_ingredients

----------------------------------------------------------------------------
\* Properties of the delivery fee and the delivery endpoints

\* the whole kilometres charged for a distance: the least k with k km >= d
KmCharged(d) == CHOOSE k \in 0..(d + 1) : k * DistScale >= d /\ (k - 1) * DistScale < d

\* distances 0.00 .. 3.00 km and around the delivery radius
FeeDomain == 0..(3 * DistScale) \cup {2000, 2001, 2050}

C8_Function ==
    /\ \A d \in FeeDomain : calculateDeliveryFee(d) = 2000 + 2000 * KmCharged(d)
    /\ \A d \in FeeDomain : d + 1 \in FeeDomain =>
          calculateDeliveryFee(d) <= calculateDeliveryFee(d + 1)
    /\ calculateDeliveryFee(10) = 4000
    /\ calculateDeliveryFee(100) = 4000
    /\ calculateDeliveryFee(200) = 6000

\* C8: calculateDeliveryFee(d) = 2000 + 2000 x ceil(d) for d >= 0 (0.1 km and
\* 1.0 km cost 4000, 2.0 km costs 6000), it is non-decreasing in d, and both
\* createOrder and getDeliveryFee charge exactly this fee for the distance resolved.
C8_FeeIsCeil ==
    /\ C8_Function
    /\ \A r \in Slots :
          (req[r].op = "createOrder" /\ req[r].pc \in {"co_product", "co_header", "co_items"}) =>
              /\ req[r].fee = 2000 + 2000 * KmCharged(req[r].dist)
              /\ req[r].pc = "co_items" =>
                    orders[req[r].orderId].delivery_fee = 2000 + 2000 * KmCharged(req[r].dist)
    /\ (dlv.op = "getDeliveryFee" /\ dlv.pc = "done" /\ dlv.resp.code = 200) =>
          dlv.resp.delivery_fee = 2000 + 2000 * KmCharged(dlv.dist)

\* a header priced at 0.1 km is being stored while getDeliveryFee answered 4000 for 1.0 km
C8_Witness ==
    /\ \E r \in Slots : /\ req[r].pc = "co_items" /\ req[r].dist = 10
                          /\ orders[req[r].orderId].delivery_fee = 4000
    /\ dlv.op = "getDeliveryFee" /\ dlv.pc = "done" /\ dlv.dist = 100
    /\ dlv.resp.delivery_fee = 4000

DaAnswered == dlv.op = "checkDeliveryAvailability" /\ dlv.pc = "done" /\ dlv.resp.code = 200

\* C9: checkDeliveryAvailability answers delivery_available = true exactly when an
\* outlet is resolved within 20 km; false with the outside-area message when the
\* outlet is farther; false with the no-outlets message and nearest_outlet = null
\* when no outlet is resolved.
C9_Availability ==
    DaAnswered =>
        /\ dlv.resp.delivery_available = "true"
              <=> (dlv.resolved = "outlet" /\ dlv.dist <= 20 * DistScale)
        /\ (dlv.resolved = "outlet" /\ dlv.dist > 20 * DistScale) =>
              /\ dlv.resp.delivery_available = "false"
              /\ dlv.resp.data_message = "Location is outside our delivery area"
        /\ dlv.resolved = "none" =>
              /\ dlv.resp.delivery_available = "false"
              /\ dlv.resp.data_message = "No outlets found in your area"
              /\ dlv.resp.nearest_outlet = "null"

DfCompleted == dlv.op = "getDeliveryFee" /\ dlv.pc = "done" /\ dlv.resolved # "pending"

\* C10: getDeliveryFee, for a valid coordinate with an outlet resolved, answers
\* delivery_fee = 2000 + 2000 x ceil(distance_km) and delivery_available = true iff
\* distance_km <= 20; with no outlet resolved it answers the no-outlets failure and
\* no fee.
C10_FeeAndAvailability ==
    DfCompleted =>
        /\ isValidCoordinate(dlv.lat, dlv.lng)
        /\ dlv.resolved = "outlet" =>
              /\ dlv.resp.code = 200
              /\ dlv.resp.delivery_fee = 2000 + 2000 * KmCharged(dlv.dist)
              /\ dlv.resp.delivery_available = "true" <=> dlv.dist <= 20 * DistScale
              /\ dlv.resp.delivery_available \in {"true", "false"}
        /\ dlv.resolved = "none" =>
              /\ dlv.resp.code = 404
              /\ dlv.resp.message = "No outlets available in your area"
              /\ dlv.resp.delivery_fee = -1

\* an outlet at exactly 20 km: available, fee 2000 + 2000 x 20
C10_Witness ==
    /\ DfCompleted
    /\ dlv.resolved = "outlet"
    /\ dlv.dist = 20 * DistScale
    /\ dlv.resp.delivery_available = "true"
    /\ dlv.resp.delivery_fee = 42000

----------------------------------------------------------------------------
\* The order operations of the code alone, called by either user on any order id;
\* nothing but these handlers touches the store.

NextOwner ==
    \/ \E r \in MainSlots, u \in Users : PostOrder(r, u, CancelItems)
    \/ \E r \in MainSlots : CoNearestOutlet(r, 10, 7)
    \/ \E r \in MainSlots : CoProduct(r)
    \/ \E r \in MainSlots : CoInsertHeader(r)
    \/ \E r \in MainSlots : CoInsertItems(r)
    \/ \E r \in MainSlots : CoRollback(r)
    \/ \E r \in MainSlots : CoFetchComplete(r)
    \/ \E r \in MainSlots, u \in Users, id \in 1..MaxOrders : PutCancel(r, u, id)
    \/ \E r \in MainSlots : CaFetch(r)
    \/ \E r \in MainSlots : CaUpdate(r)
    \/ \E r \in MainSlots, u \in Users, id \in 1..MaxOrders : GetStatus(r, u, id)
    \/ \E r \in MainSlots : GsFetch(r, 7)
    \/ \E r \in MainSlots, u \in Users, id \in 1..MaxOrders : GetOrder(r, u, id)
    \/ \E r \in MainSlots : GoFetch(r)
    \/ \E r \in MainSlots, u \in Users, st \in StatusFilters : GetUserOrders(r, u, st)
    \/ \E r \in MainSlots : UoFetch(r)
    \/ \E r \in MainSlots, u \in Users, id \in 1..MaxOrders :
          PostReorder(r, u, id, NoOverride)
    \/ \E r \in MainSlots : RoFetch(r)

SpecOwner == Init /\ [][NextOwner]_vars

----------------------------------------------------------------------------
\* Properties of the symptom lookup

\* the stored mappings whose symptom equals a requested symptom, letter case ignored
MappingsAsked ==
    {m \in Range(SymptomsIngredients) :
        \E j \in 1..Len(rec.body.symptoms) :
            ToLower(m.symptom) = ToLower(rec.body.symptoms[j])}

\* C21: every stored mapping whose symptom equals a requested symptom ignoring
\* letter case, whatever the case of the stored field and of the request,
\* contributes its recommended_ingredients to R and its avoid_ingredients to A;
\* mappings of symptoms that were not requested contribute nothing.
C21_CaseInsensitiveLookup ==
    rec.pc = "rec_products" =>
        /\ \A m \in MappingsAsked :
              /\ LowerSet(m.recommended_ingredients) \subseteq RecommendedSet(rec.mappings)
              /\ LowerSet(m.avoid_ingredients)
                    \subseteq AvoidSet(rec.mappings, rec.body.allergies)
        /\ RecommendedSet(rec.mappings)
              \subseteq UNION {LowerSet(m.recommended_ingredients) : m \in MappingsAsked}
        /\ AvoidSet(rec.mappings, rec.body.allergies)
              \subseteq UNION {LowerSet(m.avoid_ingredients) : m \in MappingsAsked}
                        \cup FoldAllergies(rec.body.allergies)

----------------------------------------------------------------------------
\* Properties of createOrder's failure paths

\* the last store call a request made, and the calls it made by name
LastCall(q) == q.calls[Len(q.calls)]

CallsNamed(q, name) == {i \in 1..Len(q.calls) : q.calls[i].call = name}

\* the step in which the header insert of request r fails
C22_Step(r) ==
    (/\ req[r].pc = "co_header"
     /\ req'[r].calls # req[r].calls
     /\ LastCall(req'[r]).out \in {"error", "throw"}) =>
        /\ req'[r].pc = "done"
        /\ req'[r].resp.code = 500
        /\ LastCall(req'[r]).out = "error" =>
              req'[r].resp = Resp(500, "Failed to create order")
        /\ req'[r].orderId = 0
        /\ UNCHANGED <<orders, order_items, nextOrderId, products>>

\* C22: when the order-header insert fails, createOrder reports 'Failed to create
\* order' and attempts nothing further: the insert is the request's last store call
\* (no order_items insert, no compensating delete, no re-fetch), and the step writes
\* neither a header nor items.
C22_HeaderFailureStops ==
    /\ [](\A r \in Slots :
            (/\ req[r].calls # <<>>
             /\ \E i \in CallsNamed(req[r], "insert orders") :
                   req[r].calls[i].out \in {"error", "throw"}) =>
                /\ req[r].pc = "done"
                /\ LastCall(req[r]).call = "insert orders"
                /\ CallsNamed(req[r], "insert order_items") = {}
                /\ CallsNamed(req[r], "delete orders") = {}
                /\ CallsNamed(req[r], "select orders joined") = {}
                /\ req[r].orderId = 0)
    /\ [][\A r \in Slots : C22_Step(r)]_vars

\* a header insert failed after a two-item order was priced, while the store held
\* an earlier order that the failure left alone
C22_Witness ==
    \E r \in Slots :
        /\ req[r].pc = "done"
        /\ req[r].op = "createOrder"
        /\ req[r].calls # <<>>
        /\ LastCall(req[r]) = [call |-> "insert orders", out |-> "error"]
        /\ req[r].resp = Resp(500, "Failed to create order")
        /\ Len(req[r].calls) = 4
        /\ DOMAIN orders = {1}
        /\ DOMAIN order_items = {1}

\* the step in which the re-fetch of the joined order fails for request r
C23_Step(r) ==
    (/\ req[r].pc = "co_fetch"
     /\ req[r].orderId \in DOMAIN orders
     /\ req[r].orderId \in DOMAIN order_items
     /\ req'[r].calls # req[r].calls
     /\ LastCall(req'[r]).out = "error") =>
        /\ req'[r].pc = "done"
        /\ req'[r].resp = RespData(201, "Order created successfully", "header")
        /\ req'[r].orderId = req[r].orderId
        /\ UNCHANGED <<orders, order_items, nextOrderId, products>>

\* C23: when header and line items are persisted and the re-fetch of the joined
\* order returns an error, createOrder still answers 201 with the bare header, and
\* the step deletes neither the header nor the items; a request whose re-fetch
\* failed made no compensating delete.
C23_EnrichmentBestEffort ==
    /\ [](\A r \in Slots :
            (/\ req[r].calls # <<>>
             /\ LastCall(req[r]) = [call |-> "select orders joined", out |-> "error"]) =>
                /\ req[r].pc = "done"
                /\ req[r].resp.code = 201
                /\ req[r].resp.data = "header"
                /\ CallsNamed(req[r], "delete orders") = {})
    /\ [][\A r \in Slots : C23_Step(r)]_vars

\* an order answered 201 with the bare header after its re-fetch failed, its header
\* and its two items still stored
C23_Witness ==
    \E r \in Slots :
        /\ req[r].pc = "done"
        /\ req[r].calls # <<>>
        /\ LastCall(req[r]) = [call |-> "select orders joined", out |-> "error"]
        /\ req[r].resp = RespData(201, "Order created successfully", "header")
        /\ req[r].orderId \in DOMAIN orders
        /\ req[r].orderId \in DOMAIN order_items
        /\ Len(order_items[req[r].orderId]) = 2

\* the kind of failure a finished createOrder met, read from its store calls:
\* a store call that returned an error is a store failure unless it is one of the
\* two inserts, whose failures have kinds of their own
FailureKind(q) ==
    LET last == LastCall(q) IN
    IF last.call = "rpc get_nearest_outlet" /\ last.out = "none" THEN "no outlet"
    ELSE IF last.call \in Range(ProductCalls) /\ last.out = "ok" /\ q.resp.code = 400
      THEN "product unavailable"
    ELSE IF last.call = "insert orders" /\ last.out = "error" THEN "header failed"
    ELSE IF last.call = "delete orders" /\ last.out # "throw" THEN "items failed"
    ELSE IF last.out \in {"error", "throw"} THEN "store unavailable"
    ELSE "none"

\* the failure kind each failure response of createOrder stands for
KindReported(response) ==
    CASE response = Resp(400, "No outlets available in your area") -> "no outlet"
      [] response.message = "Product not found or unavailable" -> "product unavailable"
      [] response = Resp(500, "Failed to create order") -> "header failed"
      [] response = Resp(500, "Failed to create order items") -> "items failed"
      [] response = Resp(500, "Internal server error") -> "store unavailable"
      [] OTHER -> "none"

\* C25: every failure of createOrder is answered with a response that tells its
\* kind: no outlet, product unavailable, header creation failed, items creation
\* failed, or an error of an underlying store call (the nearest-outlet call or a
\* product fetch returning an error).
C25_FailureKindsDistinct ==
    \A r \in Slots :
        (/\ req[r].pc = "done"
         /\ req[r].op = "createOrder"
         /\ req[r].calls # <<>>
         /\ req[r].resp.code # 201) =>
            KindReported(req[r].resp) = FailureKind(req[r])

----------------------------------------------------------------------------
\* Properties of the order life cycle under the code's own operations

\* what one step may do to the statuses of the stored orders
C24_Step ==
    \A id \in DOMAIN orders' :
        /\ id \notin DOMAIN orders => orders'[id].status = "pending"
        /\ (id \in DOMAIN orders /\ orders'[id].status # orders[id].status) =>
              /\ orders'[id].status = "cancelled"
              /\ \E r \in Slots : CancelWrites(r, id)
        /\ (id \in DOMAIN orders /\ orders[id].status = "cancelled") =>
              orders'[id].status = "cancelled"

\* C24: every order is persisted with status pending; the only operation of the
\* code that changes the status of an existing order is cancelOrder, which sets it
\* to cancelled (createOrder, reorder, getUserOrders, getOrderById and
\* getOrderStatus change no status); no operation moves an order out of cancelled.
C24_StatusOnlyByCancel ==
    /\ [](\A id \in DOMAIN orders : orders[id].status \in {"pending", "cancelled"})
    /\ [][C24_Step]_vars

\* a cancelled order was reordered: the original stays cancelled, the new order is
\* pending
C24_Witness ==
    \E r \in Slots :
        /\ req[r].op = "reorder"
        /\ req[r].pc = "done"
        /\ req[r].resp.code = 201
        /\ req[r].target = 1
        /\ req[r].orderId = 2
        /\ DOMAIN orders = {1, 2}
        /\ orders[1].status = "cancelled"
        /\ orders[2].status = "pending"

\* the positions at which a handler reads one order for its caller
OwnerReads == {"ca_fetch", "go_fetch", "gs_fetch", "ro_fetch"}

\* the step in which request r reads an order that belongs to another user
C28_Step(r) ==
    (/\ req[r].pc \in OwnerReads
     /\ req'[r] # req[r]
     /\ req[r].target \in DOMAIN orders
     /\ orders[req[r].target].user_id # req[r].user) =>
        /\ req'[r].pc = "done"
        /\ req'[r].resp.code \in {404, 500}
        /\ LastCall(req'[r]).out # "throw" =>
              /\ req'[r].resp.code = 404
              /\ req'[r].resp.message \in {"Order not found", "Original order not found"}
        /\ req'[r].resp.data = "none"
        /\ req'[r].readStatus = "none"
        /\ req'[r].orderId = 0
        /\ UNCHANGED <<orders, order_items, nextOrderId, products>>

\* what one step may do to the owners and statuses of the stored orders
C28_Writes ==
    \A id \in DOMAIN orders' :
        /\ id \notin DOMAIN orders =>
              \E r \in Slots : /\ req[r].pc = "co_header"
                               /\ req[r].op \in {"createOrder", "reorder"}
                               /\ orders'[id].user_id = req[r].user
        /\ id \in DOMAIN orders =>
              /\ orders'[id].user_id = orders[id].user_id
              /\ orders'[id].status # orders[id].status =>
                    \E r \in Slots : /\ CancelWrites(r, id)
                                     /\ req[r].user = orders[id].user_id

\* C28: cancelOrder, getOrderById, getOrderStatus and reorder called by a user on
\* an order of another user answer 'not found', reveal nothing of the order and
\* change nothing; no request of a user changes the status of another user's
\* order, and every order created by createOrder or reorder has user_id = its
\* caller.
C28_OwnerScoped ==
    /\ [][\A r \in Slots : C28_Step(r)]_vars
    /\ [][C28_Writes]_vars

\* the cancellation of another user's pending order was refused as not found, and
\* the order is still pending
C28_Witness ==
    \E r \in Slots :
        /\ req[r].op = "cancelOrder"
        /\ req[r].pc = "done"
        /\ req[r].user = "u2"
        /\ req[r].target \in DOMAIN orders
        /\ orders[req[r].target].user_id = "u1"
        /\ orders[req[r].target].status = "pending"
        /\ req[r].calls = <<[call |-> "select orders for cancel", out |-> "ok"]>>
        /\ req[r].resp = Resp(404, "Order not found")

----------------------------------------------------------------------------
\* createOrder at distances with a fraction of a kilometre, asked at two times

\* distance_km as the resolver returns it: 0.25 km, 1 km, 1.37 km
EtaDistances == {25, 100, 137}

\* the clock at the request, in tenths of a minute
EtaTimes == {7, 300}

NextEta ==
    \/ \E r \in MainSlots : PostOrder(r, "u1", CancelItems)
    \/ \E r \in MainSlots, d \in EtaDistances, now \in EtaTimes : CoNearestOutlet(r, d, now)
    \/ \E r \in MainSlots : CoProduct(r)
    \/ \E r \in MainSlots : CoInsertHeader(r)
    \/ \E r \in MainSlots : CoInsertItems(r)
    \/ \E r \in MainSlots : CoRollback(r)
    \/ \E r \in MainSlots : CoFetchComplete(r)

SpecEta == Init /\ [][NextEta]_vars

\* C26: the estimated_delivery_time createOrder stores is the request time plus
\* exactly 30 + 10 x distance_km minutes, the fraction of a minute kept (0.25 km
\* gives now + 32.5 minutes), and is strictly later than the request time.
C26_EtaExact ==
    \A r \in Slots :
        (req[r].pc \in {"co_items", "co_fetch"} /\ req[r].orderId \in DOMAIN orders) =>
            LET eta == orders[req[r].orderId].estimated_delivery_time IN
            /\ eta > req[r].now
            /\ (eta - req[r].now) * DistScale
                    = TimeScale * (30 * DistScale + 10 * req[r].dist)

----------------------------------------------------------------------------
\* Properties of the item lists of created orders

\* C27: every order created through createOrder or reorder has at least one line
\* item, also when the original of a reorder has none: no persisted order has
\* total_amount equal to its delivery_fee alone, and an order answered as created
\* has a non-empty list of items.
C27_OrdersHaveItems ==
    /\ \A id \in DOMAIN orders :
          orders[id].total_amount # orders[id].delivery_fee * QtyScale
    /\ \A r \in Slots :
          (/\ req[r].pc = "done"
           /\ req[r].op \in {"createOrder", "reorder"}
           /\ req[r].resp.code = 201) =>
              /\ req[r].orderId \in DOMAIN order_items
              /\ Len(order_items[req[r].orderId]) >= 1

----------------------------------------------------------------------------
\* createOrder, reorder and cancelOrder as handlers that the event loop resumes
\* whenever the store call they await has answered

\* one resumption of the handler in slot r
HandlerStep(r) ==
    \/ RoFetch(r)
    \/ CoNearestOutlet(r, 10, 7)
    \/ CoProduct(r)
    \/ CoInsertHeader(r)
    \/ CoInsertItems(r)
    \/ CoRollback(r)
    \/ CoFetchComplete(r)
    \/ CaFetch(r)
    \/ CaUpdate(r)

NextLive ==
    \/ \E r \in MainSlots, items \in ItemLists : PostOrder(r, "u1", items)
    \/ \E r \in MainSlots, id \in 1..MaxOrders : PostReorder(r, "u1", id, NoOverride)
    \/ \E r \in MainSlots, id \in 1..MaxOrders : PutCancel(r, "u1", id)
    \/ \E r \in MainSlots : HandlerStep(r)

\* every awaited store call settles, so a handler that can resume does
SpecLive ==
    Init /\ [][NextLive]_vars /\ \A r \in MainSlots : WF_vars(HandlerStep(r))

Running(q) == q.pc \notin {"idle", "done"}

\* one step seen from slot r: a response is written only by the step that ends a
\* running request, and stays until the slot takes a new request
C29_Step(r) ==
    /\ Running(req[r]) =>
          /\ req'[r].resp # NoResp => req'[r].pc = "done"
          /\ req'[r].op = req[r].op
          /\ Len(req'[r].calls) <= Len(req[r].calls) + 1
          /\ SubSeq(req'[r].calls, 1, Len(req[r].calls)) = req[r].calls
    /\ (req[r].pc = "done" /\ req'[r] # req[r]) => req'[r].calls = <<>>

\* C29: every createOrder, reorder and cancelOrder request runs to completion and
\* sends exactly one response: none while it runs, one when it is done, also when
\* reorder hands over to createOrder and when a store call fails; it issues each
\* store call of its chain at most once, and a call that failed is followed by no
\* call but the compensating delete after a failed order_items insert.
C29_OneResponseNoRetry ==
    /\ [](\A r \in Slots :
            /\ Running(req[r]) => req[r].resp = NoResp
            /\ req[r].pc = "done" => req[r].resp.code # 0
            /\ \A i, j \in 1..Len(req[r].calls) :
                  i # j => req[r].calls[i].call # req[r].calls[j].call
            /\ \A i \in 1..(Len(req[r].calls) - 1) :
                  req[r].calls[i].out \notin {"ok", "outlet"} =>
                      /\ req[r].calls[i] = [call |-> "insert order_items", out |-> "error"]
                      /\ req[r].calls[i + 1].call = "delete orders")
    /\ [][\A r \in Slots : C29_Step(r)]_vars
    /\ \A r \in MainSlots : (Running(req[r]) ~> req[r].pc = "done")

\* a reorder that went through createOrder's whole chain, its order_items insert
\* failed and its compensating delete failed too: six store calls, one response
C29_Witness ==
    \E r \in Slots :
        /\ req[r].op = "reorder"
        /\ req[r].pc = "done"
        /\ Len(req[r].calls) = 6
        /\ req[r].calls[1] = [call |-> "select original order", out |-> "ok"]
        /\ req[r].calls[5] = [call |-> "insert order_items", out |-> "error"]
        /\ req[r].calls[6] = [call |-> "delete orders", out |-> "error"]
        /\ req[r].resp = Resp(500, "Failed to create order items")

----------------------------------------------------------------------------
\* Properties of createOrder beyond the delivery radius

\* the step in which createOrder's resolver call returns an outlet
C30_Step(r) ==
    (req[r].pc = "co_outlet" /\ req'[r].outlet = "outlet") =>
        /\ req'[r].pc \in {"co_product", "co_header"}
        /\ req'[r].resp = NoResp
        /\ req'[r].fee = 2000 + 2000 * KmCharged(req'[r].dist)

\* C30: createOrder applies no delivery-radius limit: whenever the resolver returns
\* an outlet the order is priced, whatever distance_km is, and the header it
\* persists carries delivery_fee = 2000 + 2000 x ceil(distance_km), also beyond the
\* 20 km for which getDeliveryFee answers delivery_available = false.
C30_NoRadiusLimit ==
    /\ [][\A r \in Slots : C30_Step(r)]_vars
    /\ [](\A r \in Slots :
            (req[r].pc \in {"co_items", "co_fetch"} /\ req[r].orderId \in DOMAIN orders) =>
                orders[req[r].orderId].delivery_fee = 2000 + 2000 * KmCharged(req[r].dist))

\* an order stored with its items for an outlet 20.5 km away, fee 2000 + 2000 x 21,
\* while getDeliveryFee has answered delivery_available = false for that distance
C30_Witness ==
    /\ DfCompleted
    /\ dlv.dist = 2050
    /\ dlv.resp.delivery_available = "false"
    /\ \E r \in Slots :
          /\ req[r].pc = "co_fetch"
          /\ req[r].dist = 2050
          /\ req[r].orderId \in DOMAIN order_items
          /\ orders[req[r].orderId].delivery_fee = 44000

====
